---- MODULE Spec2Model ----
(***************************************************************************)
(* A model of craig_bot: the indicator library and the Minervini momentum  *)
(* evaluator (strategy.py), the position sizer (risk.py), the trade        *)
(* journal with its adaptive tuner (journal.py) and the orchestrator       *)
(* (bot.py).                                                               *)
(*                                                                         *)
(* Conventions.                                                            *)
(*  - A Python float is an exact rational <<num, den>> with den > 0, in    *)
(*    lowest terms; math.nan is <<0, 0>>.  Rounding of binary floating     *)
(*    point is not modelled.  Prices and volumes of the input series are   *)
(*    integers.                                                            *)
(*  - Fractions of the configuration (max_pct_off_high, min_pct_from_low,  *)
(*    min_volume_dry_up_ratio) are stored in hundredths: 0.25 is 25.       *)
(*  - Python indexes from 0, TLA+ from 1: Python index i is position i+1,  *)
(*    and Python index -1 is position Len.                                 *)
(***************************************************************************)
EXTENDS Integers, Sequences, FiniteSets, TLC

VARIABLES
    strategy,   \* bot.strategy: the evaluator the bot holds, [config]
    position_sizer, \* bot.position_sizer: [config]
    journal,    \* bot.journal: [attached, min_samples, records]
    file,       \* the content of the journal's path on storage
    loaded,     \* history: the records the journal read at initialization
    appended,   \* history: the records passed to record_trade, in call order
    call        \* the last call: its operation, arguments and outcome

vars == <<strategy, position_sizer, journal, file, loaded, appended, call>>

(***************************************************************************)
(* Exact rational arithmetic standing for Python floats.                   *)
(***************************************************************************)
NaN == <<0, 0>>

Abs(x) == IF x < 0 THEN -x ELSE x

RECURSIVE GCD(_, _)
GCD(a, b) == IF b = 0 THEN a ELSE GCD(b, a % b)

\* The rational n/d (d # 0) in lowest terms with a positive denominator.
Rat(n, d) ==
    LET g == GCD(Abs(n), Abs(d))
        s == IF d < 0 THEN -1 ELSE 1
    IN  <<(s * n) \div g, (s * d) \div g>>

FromInt(n) == <<n, 1>>

\* math.inf and -math.inf are <<1, 0>> and <<-1, 0>>.
Inf == <<1, 0>>
NegInf == <<-1, 0>>

isnan(x) == x[2] = 0 /\ x[1] = 0
isinf(x) == x[2] = 0 /\ x[1] # 0
isfinite(x) == x[2] # 0

\* Python comparisons: any comparison with nan is False.
RLt(a, b) == isfinite(a) /\ isfinite(b) /\ a[1] * b[2] < b[1] * a[2]
RLe(a, b) == isfinite(a) /\ isfinite(b) /\ a[1] * b[2] <= b[1] * a[2]
RGt(a, b) == RLt(b, a)
RGe(a, b) == RLe(b, a)

\* Arithmetic: nan propagates.
RAdd(a, b) ==
    IF isnan(a) \/ isnan(b) THEN NaN
    ELSE LET g == GCD(a[2], b[2])
         IN  Rat(a[1] * (b[2] \div g) + b[1] * (a[2] \div g), (a[2] \div g) * b[2])
RNeg(a) == IF isnan(a) THEN NaN ELSE <<-a[1], a[2]>>
RSub(a, b) == RAdd(a, RNeg(b))
RMul(a, b) == IF isnan(a) \/ isnan(b) THEN NaN ELSE Rat(a[1] * b[1], a[2] * b[2])
\* b is nonzero wherever the program divides.
RDiv(a, b) == IF isnan(a) \/ isnan(b) THEN NaN ELSE Rat(a[1] * b[2], a[2] * b[1])

\* Python's min(a, b): b if b < a else a (so min(nan, 1.0) is nan).
PyMin(a, b) == IF RLt(b, a) THEN b ELSE a
\* Python's max(a, b): b if b > a else a.
PyMax(a, b) == IF RGt(b, a) THEN b ELSE a

\* len() of a list held as a function on 1..n.
PyLen(s) == Cardinality(DOMAIN s)

(***************************************************************************)
(* Rounded arithmetic.  A float format fmt = [bits, emax] keeps bits       *)
(* significant binary digits and magnitudes below 2^(emax+1); every        *)
(* operation is the exact one followed by rounding to nearest, ties to     *)
(* even, and a result too large for the format is an infinity.  Python's   *)
(* float is the format with 53 bits and emax 1023; the model checks        *)
(* narrower formats, in which the same roundings happen on smaller         *)
(* numbers.  Underflow is not modelled.                                    *)
(***************************************************************************)

RECURSIVE Pow2(_)
Pow2(k) == IF k = 0 THEN 1 ELSE 2 * Pow2(k - 1)

RECURSIVE ExpUp(_, _, _)
\* The largest e >= 0 with d * 2^e <= a, for a >= d > 0.
ExpUp(a, d, e) == IF 2 * d <= a THEN ExpUp(a, 2 * d, e + 1) ELSE e

RECURSIVE ExpDown(_, _, _)
\* The least k > 0 with a * 2^k >= d, for 0 < a < d.
ExpDown(a, d, k) == IF 2 * a >= d THEN k + 1 ELSE ExpDown(2 * a, d, k + 1)

\* floor(log2(a / d)) of a positive rational.
ILog2(a, d) == IF a >= d THEN ExpUp(a, d, 0) ELSE -ExpDown(a, d, 0)

\* The value of the format nearest to the rational x.
Round(fmt, x) ==
    IF x[2] = 0 \/ x[1] = 0 THEN x
    ELSE LET a == Abs(x[1])
             d == x[2]
             sign == IF x[1] < 0 THEN -1 ELSE 1
             shift == ILog2(a, d) - (fmt.bits - 1)
             num == IF shift >= 0 THEN a ELSE a * Pow2(-shift)
             den == IF shift >= 0 THEN d * Pow2(shift) ELSE d
             q == num \div den
             r == num % den
             m == IF 2 * r > den \/ (2 * r = den /\ q % 2 = 1) THEN q + 1 ELSE q
         IN  IF ILog2(m, 1) + shift > fmt.emax
             THEN (IF sign < 0 THEN NegInf ELSE Inf)
             ELSE IF shift >= 0 THEN <<sign * m * Pow2(shift), 1>>
             ELSE Rat(sign * m, Pow2(-shift))

\* float(literal): the decimal n/d as the format holds it.
Fl(fmt, n, d) == Round(fmt, Rat(n, d))

FAdd(fmt, a, b) == Round(fmt, RAdd(a, b))
FSub(fmt, a, b) == Round(fmt, RSub(a, b))
FMul(fmt, a, b) == Round(fmt, RMul(a, b))
FDiv(fmt, a, b) == Round(fmt, RDiv(a, b))

(***************************************************************************)
(* strategy.py: the indicator library.  The input sequences hold integers, *)
(* the outputs hold rationals or nan.                                      *)
(***************************************************************************)
W_SMA_50 == 50
W_SMA_150 == 150
W_SMA_200 == 200
W_VOL_50 == 50
W_VOL_10 == 10
W_52 == 252
W_ATR == 14

RECURSIVE SumRange(_, _, _)
\* sum(values[lo..hi]); halving keeps the evaluation shallow, the sum is the same.
SumRange(values, lo, hi) ==
    IF lo > hi THEN 0
    ELSE IF lo = hi THEN values[lo]
    ELSE LET mid == (lo + hi) \div 2
         IN  SumRange(values, lo, mid) + SumRange(values, mid + 1, hi)

\* The running sum of _rolling_mean when its loop has reached position idx
\* (idx >= window): seeded with sum(values[:window]), then for every later
\* position up to idx the value entering the window added and the value
\* leaving it subtracted.
window_sum(values, window, idx) ==
    SumRange(values, 1, window)
    + SumRange([k \in (window + 1)..idx |-> values[k] - values[k - window]],
               window + 1, idx)

rolling_mean(values, window) ==
    IF PyLen(values) < window \/ window <= 0
    THEN [i \in 1..PyLen(values) |-> NaN]
    ELSE [i \in 1..PyLen(values) |->
            IF i < window THEN NaN
            ELSE Rat(window_sum(values, window, i), window)]

RECURSIVE sum_fl(_, _, _, _)
\* sum(values[lo - 1 : hi]) on floats of format fmt: the items added from the
\* left, every partial sum rounded.
sum_fl(fmt, values, lo, hi) ==
    IF hi < lo THEN FromInt(0)
    ELSE FAdd(fmt, sum_fl(fmt, values, lo, hi - 1), FromInt(values[hi]))

RECURSIVE window_sum_fl(_, _, _, _)
\* The running sum of _rolling_mean at position idx (idx >= window) on floats
\* of format fmt: line 59 rounds the difference, then the updated sum.
window_sum_fl(fmt, values, window, idx) ==
    IF idx = window THEN sum_fl(fmt, values, 1, window)
    ELSE FAdd(fmt, window_sum_fl(fmt, values, window, idx - 1),
              FSub(fmt, FromInt(values[idx]), FromInt(values[idx - window])))

\* _rolling_mean on floats of format fmt (integer-valued, held as integers).
rolling_mean_fl(fmt, values, window) ==
    IF PyLen(values) < window \/ window <= 0
    THEN [i \in 1..PyLen(values) |-> NaN]
    ELSE [i \in 1..PyLen(values) |->
            IF i < window THEN NaN
            ELSE FDiv(fmt, window_sum_fl(fmt, values, window, i), FromInt(window))]

RECURSIVE SliceMax(_, _, _)
\* max(values[lo..hi]), lo <= hi
SliceMax(values, lo, hi) ==
    IF lo = hi THEN values[lo]
    ELSE LET mid == (lo + hi) \div 2
             l == SliceMax(values, lo, mid)
             r == SliceMax(values, mid + 1, hi)
         IN  IF r > l THEN r ELSE l

RECURSIVE SliceMin(_, _, _)
\* min(values[lo..hi]), lo <= hi
SliceMin(values, lo, hi) ==
    IF lo = hi THEN values[lo]
    ELSE LET mid == (lo + hi) \div 2
             l == SliceMin(values, lo, mid)
             r == SliceMin(values, mid + 1, hi)
         IN  IF r < l THEN r ELSE l

\* Mutant of rolling_max: a list shorter than the window gets the maximum of
\* what there is.
rolling_max_partial(values, window) ==
    IF window <= 0
    THEN [i \in 1..PyLen(values) |-> NaN]
    ELSE [i \in 1..PyLen(values) |->
            IF i < window /\ PyLen(values) >= window THEN NaN
            ELSE FromInt(SliceMax(values, IF i > window THEN i - window + 1 ELSE 1, i))]

rolling_max(values, window) ==
    IF PyLen(values) < window \/ window <= 0
    THEN [i \in 1..PyLen(values) |-> NaN]
    ELSE [i \in 1..PyLen(values) |->
            IF i < window THEN NaN
            ELSE FromInt(SliceMax(values, i - window + 1, i))]

rolling_min(values, window) ==
    IF PyLen(values) < window \/ window <= 0
    THEN [i \in 1..PyLen(values) |-> NaN]
    ELSE [i \in 1..PyLen(values) |->
            IF i < window THEN NaN
            ELSE FromInt(SliceMin(values, i - window + 1, i))]

Max3(a, b, c) ==
    LET ab == IF b > a THEN b ELSE a
    IN  IF c > ab THEN c ELSE ab

\* The true range list of _atr; the caller has checked the series are not empty.
true_range(high, low, close) ==
    [i \in 1..PyLen(close) |->
        IF i = 1 THEN high[1] - low[1]
        ELSE Max3(high[i] - low[i],
                  Abs(high[i] - close[i - 1]),
                  Abs(low[i] - close[i - 1]))]

atr(high, low, close, window) == rolling_mean(true_range(high, low, close), window)

\* _validate_inputs: the error it raises, or "ok".
RequiredSeries == {"close", "high", "low", "volume"}

validate_inputs(price_data) ==
    IF RequiredSeries \ DOMAIN price_data # {} THEN "ValueError"
    ELSE IF Cardinality({PyLen(price_data[k]) : k \in DOMAIN price_data}) # 1
    THEN "ValueError"
    ELSE "ok"

\* How calculate_indicators ends: "ok", or the exception it raises ("ValueError" by
\* _validate_inputs, "IndexError" by true_range[0] in _atr for empty series; the
\* rolling functions before it accept an empty list).
indicators_status(price_data) ==
    IF validate_inputs(price_data) # "ok" THEN "ValueError"
    ELSE IF PyLen(price_data.close) = 0 THEN "IndexError"
    ELSE "ok"

\* calculate_indicators when it returns: the indicator lists.  The 21-period EMA
\* is computed by the program and read by nothing; it is left out.
calculate_indicators(price_data) ==
    LET close == price_data.close
        high == price_data.high
        low == price_data.low
        volume == price_data.volume
        avg_volume_50 == rolling_mean(volume, W_VOL_50)
        avg_volume_10 == rolling_mean(volume, W_VOL_10)
        high_52 == rolling_max(high, W_52)
        low_52 == rolling_min(low, W_52)
    IN  [close |-> close,
         sma_50 |-> rolling_mean(close, W_SMA_50),
         sma_150 |-> rolling_mean(close, W_SMA_150),
         sma_200 |-> rolling_mean(close, W_SMA_200),
         avg_volume_50 |-> avg_volume_50,
         avg_volume_10 |-> avg_volume_10,
         high_52 |-> high_52,
         low_52 |-> low_52,
         atr_14 |-> atr(high, low, close, W_ATR),
         pct_off_high |-> [i \in 1..PyLen(close) |->
            IF isfinite(high_52[i]) /\ high_52[i][1] # 0
            THEN RDiv(RSub(high_52[i], FromInt(close[i])), high_52[i])
            ELSE NaN],
         pct_from_low |-> [i \in 1..PyLen(close) |->
            IF isfinite(low_52[i]) /\ low_52[i][1] # 0
            THEN RDiv(RSub(FromInt(close[i]), low_52[i]), low_52[i])
            ELSE NaN],
         volume_dry_up |-> [i \in 1..PyLen(close) |->
            IF isfinite(avg_volume_10[i]) /\ isfinite(avg_volume_50[i])
               /\ RGt(avg_volume_50[i], FromInt(0))
            THEN RDiv(avg_volume_10[i], avg_volume_50[i])
            ELSE NaN]]

(***************************************************************************)
(* strategy.py: StrategyConfig and MinerviniMomentumStrategy.evaluate.     *)
(***************************************************************************)
\* StrategyConfig() with its defaults (fractions in hundredths).
DefaultConfig ==
    [rs_threshold |-> 70,
     max_pct_off_high |-> 25,
     min_pct_from_low |-> 30,
     min_volume_dry_up_ratio |-> 50,
     trend_lookback |-> 10,
     min_base_length |-> 35]

\* A configuration fraction held in hundredths, as a rational.
Pct(h) == Rat(h, 100)

MsgNoData == "Not enough data to compute moving averages"
MsgStacked == "Moving averages are not stacked in bullish order"
MsgTrend == "200-day trend is not rising"
MsgNoTrend == "Not enough data to assess 200-day trend"
MsgAboveMA == "Price is not above key moving averages"
MsgOffHigh == "Price is extended too far below 52-week high"
MsgFromLow == "Price is not sufficiently off the 52-week low"
MsgRS == "Relative strength is below threshold"
MsgVolume == "Volume has not dried up during base"
MsgBase == "Base duration is too short"
MsgATR == "ATR is not available"

\* The closure fail(reason) of evaluate, on the pair of locals it updates.
fail(st, reason) == [qualifies |-> FALSE, reasons |-> Append(st.reasons, reason)]

\* Mutant of check: the checks stop at the first failure.
check_short_circuit(st, violated, reason) ==
    IF violated /\ st.qualifies THEN fail(st, reason) ELSE st

\* One "if <violated>: fail(<reason>)" statement.
check(st, violated, reason) == IF violated THEN fail(st, reason) ELSE st

\* seq[-1]
Latest(seq) == seq[PyLen(seq)]

\* What evaluate reads from the indicators: every list at latest_idx = -1, and
\* sma_200 at latest_idx - trend_lookback when len(sma_200) > trend_lookback
\* (trend_lookback >= 0).
latest_values(ind, trend_lookback) ==
    [close_price |-> FromInt(Latest(ind.close)),
     sma_50 |-> Latest(ind.sma_50),
     sma_150 |-> Latest(ind.sma_150),
     sma_200 |-> Latest(ind.sma_200),
     has_earlier |-> PyLen(ind.sma_200) > trend_lookback,
     earlier |-> IF PyLen(ind.sma_200) > trend_lookback
                 THEN ind.sma_200[PyLen(ind.sma_200) - trend_lookback]
                 ELSE NaN,
     pct_off_high |-> Latest(ind.pct_off_high),
     pct_from_low |-> Latest(ind.pct_from_low),
     volume_dry_up |-> Latest(ind.volume_dry_up),
     atr_14 |-> Latest(ind.atr_14)]

\* Mutant of run_checks: the relative-strength check fires above the threshold.
run_checks_rs_reversed(m, relative_strength, base_length, config) ==
    LET s0 == [qualifies |-> TRUE, reasons |-> <<>>]
        s1 == check(s0, ~(RGt(m.sma_50, m.sma_150) /\ RGt(m.sma_150, m.sma_200)),
                    MsgStacked)
        s2 == IF m.has_earlier
              THEN check(s1, isnan(m.earlier) \/ isnan(m.sma_200)
                             \/ RLe(m.sma_200, m.earlier), MsgTrend)
              ELSE fail(s1, MsgNoTrend)
        s3 == check(s2, RLe(m.close_price, m.sma_50) \/ RLe(m.close_price, m.sma_150),
                    MsgAboveMA)
        s4 == check(s3, ~isfinite(m.pct_off_high)
                        \/ RGt(m.pct_off_high, Pct(config.max_pct_off_high)),
                    MsgOffHigh)
        s5 == check(s4, ~isfinite(m.pct_from_low)
                        \/ RLt(m.pct_from_low, Pct(config.min_pct_from_low)),
                    MsgFromLow)
        s6 == check(s5, relative_strength > config.rs_threshold, MsgRS)
        s7 == check(s6, ~isfinite(m.volume_dry_up)
                        \/ RLt(m.volume_dry_up, Pct(config.min_volume_dry_up_ratio)),
                    MsgVolume)
        s8 == check(s7, base_length < config.min_base_length, MsgBase)
        s9 == check(s8, ~isfinite(m.atr_14) \/ RLe(m.atr_14, FromInt(0)), MsgATR)
    IN  s9

\* Lines 208-244: the checks after the moving-average gate, in program order.
run_checks(m, relative_strength, base_length, config) ==
    LET s0 == [qualifies |-> TRUE, reasons |-> <<>>]
        s1 == check(s0, ~(RGt(m.sma_50, m.sma_150) /\ RGt(m.sma_150, m.sma_200)),
                    MsgStacked)
        s2 == IF m.has_earlier
              THEN check(s1, isnan(m.earlier) \/ isnan(m.sma_200)
                             \/ RLe(m.sma_200, m.earlier), MsgTrend)
              ELSE fail(s1, MsgNoTrend)
        s3 == check(s2, RLe(m.close_price, m.sma_50) \/ RLe(m.close_price, m.sma_150),
                    MsgAboveMA)
        s4 == check(s3, ~isfinite(m.pct_off_high)
                        \/ RGt(m.pct_off_high, Pct(config.max_pct_off_high)),
                    MsgOffHigh)
        s5 == check(s4, ~isfinite(m.pct_from_low)
                        \/ RLt(m.pct_from_low, Pct(config.min_pct_from_low)),
                    MsgFromLow)
        s6 == check(s5, relative_strength < config.rs_threshold, MsgRS)
        s7 == check(s6, ~isfinite(m.volume_dry_up)
                        \/ RLt(m.volume_dry_up, Pct(config.min_volume_dry_up_ratio)),
                    MsgVolume)
        s8 == check(s7, base_length < config.min_base_length, MsgBase)
        s9 == check(s8, ~isfinite(m.atr_14) \/ RLe(m.atr_14, FromInt(0)), MsgATR)
    IN  s9

\* Mutant of score_of: the distance from the 52-week low is not clamped to 1.
score_of_unclamped(m, relative_strength) ==
    LET one == FromInt(1)
        c1 == PyMin(Rat(relative_strength, 100), one)
        c2 == PyMin(RSub(one, m.pct_off_high), one)
        c3 == m.pct_from_low
        c4 == PyMin(RDiv(m.volume_dry_up, Rat(3, 2)), one)
    IN  RDiv(RAdd(RAdd(RAdd(c1, c2), c3), c4), FromInt(4))

\* Lines 246-252: the mean of the four clamped components.
score_of(m, relative_strength) ==
    LET one == FromInt(1)
        c1 == PyMin(Rat(relative_strength, 100), one)
        c2 == PyMin(RSub(one, m.pct_off_high), one)
        c3 == PyMin(m.pct_from_low, one)
        c4 == PyMin(RDiv(m.volume_dry_up, Rat(3, 2)), one)
    IN  RDiv(RAdd(RAdd(RAdd(c1, c2), c3), c4), FromInt(4))

\* Lines 196-206: the evaluation returned when a moving average is nan.
gate_result(m, relative_strength) ==
    [status |-> "ok",
     qualifies |-> FALSE,
     score |-> FromInt(0),
     reasons |-> fail([qualifies |-> TRUE, reasons |-> <<>>], MsgNoData).reasons,
     metrics |-> [relative_strength |-> relative_strength],
     entry_price |-> m.close_price,
     stop_price |-> m.close_price]

\* Mutant of full_result: the stop is the latest close, as in the gate's result.
full_result_stop_at_close(m, relative_strength, base_length, config) ==
    LET st == run_checks(m, relative_strength, base_length, config)
    IN  [status |-> "ok",
         qualifies |-> st.qualifies,
         score |-> IF st.qualifies THEN score_of(m, relative_strength) ELSE FromInt(0),
         reasons |-> st.reasons,
         metrics |-> [sma_50 |-> m.sma_50,
                      sma_150 |-> m.sma_150,
                      sma_200 |-> m.sma_200,
                      atr_14 |-> m.atr_14,
                      pct_off_high |-> m.pct_off_high,
                      pct_from_low |-> m.pct_from_low,
                      volume_dry_up |-> m.volume_dry_up,
                      relative_strength |-> relative_strength],
         entry_price |-> m.close_price,
         stop_price |-> m.close_price]

\* Lines 208-273: the evaluation returned past the gate.
full_result(m, relative_strength, base_length, config) ==
    LET st == run_checks(m, relative_strength, base_length, config)
    IN  [status |-> "ok",
         qualifies |-> st.qualifies,
         score |-> IF st.qualifies THEN score_of(m, relative_strength) ELSE FromInt(0),
         reasons |-> st.reasons,
         metrics |-> [sma_50 |-> m.sma_50,
                      sma_150 |-> m.sma_150,
                      sma_200 |-> m.sma_200,
                      atr_14 |-> m.atr_14,
                      pct_off_high |-> m.pct_off_high,
                      pct_from_low |-> m.pct_from_low,
                      volume_dry_up |-> m.volume_dry_up,
                      relative_strength |-> relative_strength],
         entry_price |-> m.close_price,
         stop_price |-> RSub(m.close_price, RMul(FromInt(2), m.atr_14))]

\* Mutant of ma_gate: only the shortest average is tested.
ma_gate_sma_50_only(m) == isnan(m.sma_50)

\* Whether the gate of line 196 fires: any of the three latest averages is nan.
ma_gate(m) == isnan(m.sma_50) \/ isnan(m.sma_150) \/ isnan(m.sma_200)

\* Lines 191-273 on the values read from the indicators.
evaluate_latest(m, relative_strength, base_length, config) ==
    IF ma_gate(m)
    THEN gate_result(m, relative_strength)
    ELSE full_result(m, relative_strength, base_length, config)

\* MinerviniMomentumStrategy(config).evaluate(price_data, relative_strength=,
\* base_length=): the StrategyEvaluation, or [status |-> <the exception>].
\* (The indicator values are bound once, as the program's locals are.)
evaluate(price_data, relative_strength, base_length, config) ==
    IF indicators_status(price_data) # "ok"
    THEN [status |-> indicators_status(price_data)]
    ELSE CHOOSE r \in {evaluate_latest(m, relative_strength, base_length, config) :
                        m \in {latest_values(calculate_indicators(price_data),
                                              config.trend_lookback)}} : TRUE

(***************************************************************************)
(* The price series the model feeds the program: a length and a shape.     *)
(***************************************************************************)
MaxLen == 260

Lens == {1, 50, 150, 199, 200, 209, 210, 251, 252, MaxLen}

\* Well-formed shapes.
Shapes == {"up", "up500", "down", "flat", "dip", "spike", "lowzero", "norange",
           "dry", "novol", "surge"}
\* Shapes that break the PriceSeries invariant.
BadShapes == {"mismatch", "missing", "empty"}

CloseAt(shape, n, i) ==
    CASE shape = "up500" -> 500 + i
      [] shape = "down" -> 400 - i
      [] shape \in {"flat", "norange"} -> 200
      [] shape = "dip" -> IF i = n THEN 100 + i - 60 ELSE 100 + i
      [] OTHER -> 100 + i

HighAt(shape, n, i) ==
    CASE shape = "norange" -> CloseAt(shape, n, i)
      [] shape = "spike" -> IF i = n - 5 THEN 1000 ELSE CloseAt(shape, n, i) + 1
      [] OTHER -> CloseAt(shape, n, i) + 1

LowAt(shape, n, i) ==
    CASE shape = "norange" -> CloseAt(shape, n, i)
      [] shape = "lowzero" -> IF i = n - 5 THEN 0 ELSE CloseAt(shape, n, i) - 1
      [] OTHER -> CloseAt(shape, n, i) - 1

VolumeAt(shape, n, i) ==
    CASE shape = "dry" -> IF i > n - 10 THEN 10 ELSE 100
      [] shape = "surge" -> IF i > n - 10 THEN 100 ELSE 10
      [] shape = "novol" -> 0
      [] OTHER -> 10

\* The price data of a series parameter p = [n, shape].
Series(p) ==
    LET n == IF p.shape = "empty" THEN 0 ELSE p.n
        close == [i \in 1..n |-> CloseAt(p.shape, n, i)]
        high == [i \in 1..n |-> HighAt(p.shape, n, i)]
        low == [i \in 1..n |-> LowAt(p.shape, n, i)]
        volume == [i \in 1..n |-> VolumeAt(p.shape, n, i)]
    IN  CASE p.shape = "missing" -> [close |-> close, high |-> high, low |-> low]
          [] p.shape = "mismatch" ->
                [close |-> close, high |-> high,
                 low |-> [i \in 1..(n - 1) |-> low[i]], volume |-> volume]
          [] OTHER -> [close |-> close, high |-> high, low |-> low, volume |-> volume]

SeriesParams == [n : Lens, shape : Shapes \cup BadShapes]

(***************************************************************************)
(* risk.py: PositionSizerConfig and PositionSizer.size_position.           *)
(***************************************************************************)
\* PositionSizerConfig() with its defaults.
DefaultSizerConfig ==
    [account_equity |-> FromInt(100000),
     risk_fraction |-> Rat(1, 100),
     atr_multiplier |-> FromInt(2)]

\* math.floor of a finite rational.
Floor(x) == x[1] \div x[2]

\* size_position(entry_price, atr) computed in the float format fmt:
\* [status |-> "ok", plan |-> <the dict>], or the exception raised: ValueError
\* (the two argument checks, or floor of a nan) or OverflowError (floor of an
\* infinity).
size_position_fl(fmt, sizer_config, entry_price, atr_value) ==
    IF RLe(entry_price, FromInt(0)) THEN [status |-> "ValueError"]
    ELSE IF RLe(atr_value, FromInt(0)) THEN [status |-> "ValueError"]
    ELSE
    LET risk_capital == FMul(fmt, sizer_config.account_equity, sizer_config.risk_fraction)
        stop_price == FSub(fmt, entry_price,
                           FMul(fmt, sizer_config.atr_multiplier, atr_value))
        per_share_risk == FSub(fmt, entry_price, stop_price)
    IN  IF RLe(per_share_risk, FromInt(0))
        THEN [status |-> "ok",
              plan |-> [shares |-> 0, stop_price |-> stop_price,
                        risk_capital |-> risk_capital]]
        ELSE IF isnan(per_share_risk) \/ isnan(risk_capital)
        THEN [status |-> "ValueError"]
        ELSE IF isinf(FDiv(fmt, risk_capital, per_share_risk))
        THEN [status |-> "OverflowError"]
        ELSE LET shares == Floor(FDiv(fmt, risk_capital, per_share_risk))
             IN  [status |-> "ok",
                  plan |-> [shares |-> shares, stop_price |-> stop_price,
                            risk_capital |-> risk_capital,
                            exposure |-> FMul(fmt, Round(fmt, FromInt(shares)),
                                              entry_price)]]

\* PositionSizer.size_position as the ranking pass uses it, on the prices and
\* ATR of the modelled series, where no operation rounds.
size_position(sizer_config, entry_price, atr_value) ==
    IF RLe(entry_price, FromInt(0)) THEN [status |-> "ValueError"]
    ELSE IF RLe(atr_value, FromInt(0)) THEN [status |-> "ValueError"]
    ELSE
    LET risk_capital == RMul(sizer_config.account_equity, sizer_config.risk_fraction)
        stop_price == RSub(entry_price, RMul(sizer_config.atr_multiplier, atr_value))
        per_share_risk == RSub(entry_price, stop_price)
    IN  IF RLe(per_share_risk, FromInt(0))
        THEN [status |-> "ok",
              plan |-> [shares |-> 0, stop_price |-> stop_price,
                        risk_capital |-> risk_capital]]
        ELSE IF isnan(per_share_risk) \/ isnan(risk_capital)
        THEN [status |-> "ValueError"]
        ELSE LET shares == Floor(RDiv(risk_capital, per_share_risk))
             IN  [status |-> "ok",
                  plan |-> [shares |-> shares, stop_price |-> stop_price,
                            risk_capital |-> risk_capital,
                            exposure |-> RMul(FromInt(shares), entry_price)]]

(***************************************************************************)
(* journal.py: TradeRecord, TradeJournal and the adaptive tuner.           *)
(***************************************************************************)
\* TradeRecord.return_pct
return_pct(record) ==
    IF record.entry_price = 0 THEN FromInt(0)
    ELSE Rat(record.exit_price - record.entry_price, record.entry_price)

\* The keys of asdict(record) as json.dumps(..., sort_keys=True) writes them.
JsonKeys == <<"entry_date", "entry_price", "exit_date", "exit_price", "shares", "symbol">>

\* One JSON object of the file: the (key, value) pairs of asdict(record), by key.
dump_record(record) ==
    <<<<"entry_date", record.entry_date>>, <<"entry_price", record.entry_price>>,
      <<"exit_date", record.exit_date>>, <<"exit_price", record.exit_price>>,
      <<"shares", record.shares>>, <<"symbol", record.symbol>>>>

\* item[key] of a parsed JSON object.
json_get(item, key) == item[CHOOSE k \in 1..Len(item) : item[k][1] = key][2]

\* TradeRecord(**item)
load_record(item) ==
    [symbol |-> json_get(item, "symbol"),
     entry_price |-> json_get(item, "entry_price"),
     exit_price |-> json_get(item, "exit_price"),
     shares |-> json_get(item, "shares"),
     entry_date |-> json_get(item, "entry_date"),
     exit_date |-> json_get(item, "exit_date")]

RECURSIVE dump_all(_)
\* json.dumps([asdict(record) for record in records])
dump_all(records) ==
    IF records = <<>> THEN <<>>
    ELSE <<dump_record(Head(records))>> \o dump_all(Tail(records))

RECURSIVE load_all(_)
\* [TradeRecord(**item) for item in json.loads(data)]
load_all(items) ==
    IF items = <<>> THEN <<>>
    ELSE <<load_record(Head(items))>> \o load_all(Tail(items))

\* The path on storage: missing, holding blank text, or holding a JSON array.
Absent == [exists |-> FALSE, blank |-> FALSE, items |-> <<>>]
BlankFile == [exists |-> TRUE, blank |-> TRUE, items |-> <<>>]

\* Mutant of load: a journal starts empty whatever the path holds.
load_nothing(f) == <<>>

\* TradeJournal._load: the records a journal opened on the path starts with.
load(f) ==
    IF ~f.exists THEN <<>>
    ELSE IF f.blank THEN <<>>
    ELSE load_all(f.items)

\* Mutant of persist: the file is written before the new record is in the list.
persist_stale(records) ==
    [exists |-> TRUE, blank |-> FALSE,
     items |-> dump_all(SubSeq(records, 1, Len(records) - 1))]

\* TradeJournal._persist: the path rewritten in full from the in-memory list.
persist(records) == [exists |-> TRUE, blank |-> FALSE, items |-> dump_all(records)]

\* self._records[-self.min_samples:], a Python slice with start -min_samples.
recent_records(records, min_samples) ==
    LET n == Len(records)
        start == IF -min_samples < 0
                 THEN (IF n - min_samples < 0 THEN 0 ELSE n - min_samples)
                 ELSE (IF -min_samples > n THEN n ELSE -min_samples)
    IN  SubSeq(records, start + 1, n)

RECURSIVE sum_returns(_)
sum_returns(records) ==
    IF records = <<>> THEN FromInt(0)
    ELSE RAdd(return_pct(Head(records)), sum_returns(Tail(records)))

\* Mutant of tuned_thresholds: rs_threshold moves the other way in each branch.
tuned_thresholds_reversed(config, win_rate, avg_return) ==
    IF RGt(win_rate, Rat(6, 10)) /\ RGt(avg_return, FromInt(0))
    THEN [config EXCEPT
            !.rs_threshold = IF @ - 5 > 60 THEN @ - 5 ELSE 60,
            !.max_pct_off_high = IF @ - 2 > 15 THEN @ - 2 ELSE 15]
    ELSE IF RLt(win_rate, Rat(4, 10))
    THEN [config EXCEPT
            !.rs_threshold = IF @ + 5 < 95 THEN @ + 5 ELSE 95,
            !.min_pct_from_low = IF @ - 5 > 10 THEN @ - 5 ELSE 10]
    ELSE config

\* Lines 96-105: the thresholds tuned from win_rate and avg_return.
\* Mutant of tuned_thresholds: at the upper clamp the threshold starts over.
tuned_thresholds_wrap(config, win_rate, avg_return) ==
    IF RGt(win_rate, Rat(6, 10)) /\ RGt(avg_return, FromInt(0))
    THEN [config EXCEPT
            !.rs_threshold = IF @ + 5 < 95 THEN @ + 5 ELSE 60,
            !.max_pct_off_high = IF @ - 2 > 15 THEN @ - 2 ELSE 15]
    ELSE IF RLt(win_rate, Rat(4, 10))
    THEN [config EXCEPT
            !.rs_threshold = IF @ - 5 > 60 THEN @ - 5 ELSE 60,
            !.min_pct_from_low = IF @ - 5 > 10 THEN @ - 5 ELSE 10]
    ELSE config

\* Mutant of tuned_thresholds: min_pct_from_low is floored at 0.05.
tuned_thresholds_low_floor(config, win_rate, avg_return) ==
    IF RGt(win_rate, Rat(6, 10)) /\ RGt(avg_return, FromInt(0))
    THEN [config EXCEPT
            !.rs_threshold = IF @ + 5 < 95 THEN @ + 5 ELSE 95,
            !.max_pct_off_high = IF @ - 2 > 15 THEN @ - 2 ELSE 15]
    ELSE IF RLt(win_rate, Rat(4, 10))
    THEN [config EXCEPT
            !.rs_threshold = IF @ - 5 > 60 THEN @ - 5 ELSE 60,
            !.min_pct_from_low = IF @ - 5 > 5 THEN @ - 5 ELSE 5]
    ELSE config

tuned_thresholds(config, win_rate, avg_return) ==
    IF RGt(win_rate, Rat(6, 10)) /\ RGt(avg_return, FromInt(0))
    THEN [config EXCEPT
            !.rs_threshold = IF @ + 5 < 95 THEN @ + 5 ELSE 95,
            !.max_pct_off_high = IF @ - 2 > 15 THEN @ - 2 ELSE 15]
    ELSE IF RLt(win_rate, Rat(4, 10))
    THEN [config EXCEPT
            !.rs_threshold = IF @ - 5 > 60 THEN @ - 5 ELSE 60,
            !.min_pct_from_low = IF @ - 5 > 10 THEN @ - 5 ELSE 10]
    ELSE config

\* Lines 90-112 on a window: len(wins) / len(recent) divides by zero when the
\* window is empty.
tune_from(recent, config) ==
    IF Len(recent) = 0 THEN [status |-> "ZeroDivisionError"]
    ELSE [status |-> "ok",
          config |-> tuned_thresholds(config,
                        Rat(Cardinality({i \in 1..Len(recent) :
                                            RGt(return_pct(recent[i]), FromInt(0))}),
                            Len(recent)),
                        RDiv(sum_returns(recent), FromInt(Len(recent))))]

\* Mutant of adapt_config: a journal that is too short is tuned from what it holds.
adapt_config_no_minimum(records, min_samples, config) ==
    IF records = <<>> THEN [status |-> "ok", config |-> config]
    ELSE tune_from(recent_records(records, min_samples), config)

\* TradeJournal.adapt_config: the config returned, or the exception raised.
adapt_config(records, min_samples, config) ==
    LET recent == recent_records(records, min_samples)
    IN  IF Len(recent) < min_samples THEN [status |-> "ok", config |-> config]
        ELSE tune_from(recent, config)

\* TradeJournal.apply_adaptive_tuning
apply_adaptive_tuning(j, strategy_config) ==
    adapt_config(j.records, j.min_samples, strategy_config)

(***************************************************************************)
(* bot.py: MomentumBot.rank_candidates and record_completed_trade.         *)
(*                                                                         *)
(* The price-series mapping is a sequence of (symbol, series parameter)    *)
(* pairs in its iteration order; relative_strengths and base_lengths are   *)
(* functions on the symbols they hold.                                     *)
(***************************************************************************)
\* Mutant of tuning_step: the tuned config is computed and the evaluator kept.
tuning_step_keep_evaluator(config, j) ==
    IF j.attached
    THEN LET tuned == apply_adaptive_tuning(j, config)
         IN  IF tuned.status # "ok"
             THEN [status |-> tuned.status, config |-> config, tuned |-> config,
                   rebuilt |-> FALSE]
             ELSE [status |-> "ok", config |-> config, tuned |-> tuned.config,
                   rebuilt |-> FALSE]
    ELSE [status |-> "ok", config |-> config, tuned |-> config, rebuilt |-> FALSE]

\* Lines 41-44: the config of the evaluator the pass runs with, the tuned
\* config, and whether self.strategy was replaced by a new evaluator.  An
\* exception of the tuner leaves the bot as it was.
tuning_step(config, j) ==
    IF j.attached
    THEN LET tuned == apply_adaptive_tuning(j, config)
         IN  IF tuned.status # "ok"
             THEN [status |-> tuned.status, config |-> config, tuned |-> config,
                   rebuilt |-> FALSE]
             ELSE IF tuned.config # config
             THEN [status |-> "ok", config |-> tuned.config, tuned |-> tuned.config,
                   rebuilt |-> TRUE]
             ELSE [status |-> "ok", config |-> config, tuned |-> tuned.config,
                   rebuilt |-> FALSE]
    ELSE [status |-> "ok", config |-> config, tuned |-> config, rebuilt |-> FALSE]

\* The locals of the loop of lines 46-64 before its first iteration.  status is
\* "ok" while no exception has been raised; evaluations and sized record the
\* calls made to the evaluator and to the sizer.
LoopStart ==
    [status |-> "ok", error |-> <<>>, results |-> <<>>, evaluations |-> <<>>,
     sized |-> <<>>]

\* Mutant of after_evaluation: a symbol that does not qualify is sized and listed
\* like one that does.
after_evaluation_keep_all(acc, symbol, ev, sizer_config) ==
    LET sp == size_position(sizer_config, ev.entry_price, FromInt(1))
    IN  [acc EXCEPT !.evaluations = Append(@, <<symbol, ev>>),
                    !.sized = Append(@, symbol),
                    !.results = Append(@, [symbol |-> symbol, evaluation |-> ev,
                                           position_plan |-> sp.plan])]

\* Lines 58-64 for a symbol whose evaluation ev was returned.
after_evaluation(acc, symbol, ev, sizer_config) ==
    IF ~ev.qualifies
    THEN [acc EXCEPT !.evaluations = Append(@, <<symbol, ev>>)]
    ELSE LET sp == size_position(sizer_config, ev.entry_price, ev.metrics.atr_14)
         IN  IF sp.status # "ok"
             THEN [acc EXCEPT !.status = sp.status,
                              !.error = <<"size_position", symbol>>,
                              !.evaluations = Append(@, <<symbol, ev>>),
                              !.sized = Append(@, symbol)]
             ELSE [acc EXCEPT !.evaluations = Append(@, <<symbol, ev>>),
                              !.sized = Append(@, symbol),
                              !.results = Append(@, [symbol |-> symbol,
                                                     evaluation |-> ev,
                                                     position_plan |-> sp.plan])]

\* Mutant of loop_body: a symbol without a relative strength or a base length is
\* skipped.
loop_body_skip_missing(acc, symbol, price, relative_strengths, base_lengths, config, sizer_config) ==
    IF symbol \notin DOMAIN relative_strengths \/ symbol \notin DOMAIN base_lengths
    THEN acc
    ELSE CHOOSE r \in {IF ev.status # "ok"
                       THEN [acc EXCEPT !.status = ev.status,
                                        !.error = <<"evaluate", symbol>>]
                       ELSE after_evaluation(acc, symbol, ev, sizer_config) :
                       ev \in {evaluate(Series(price), relative_strengths[symbol],
                                        base_lengths[symbol], config)}} : TRUE

\* Lines 46-64: one iteration of the loop, for one item of price_series.
loop_body(acc, symbol, price, relative_strengths, base_lengths, config, sizer_config) ==
    IF symbol \notin DOMAIN relative_strengths
    THEN [acc EXCEPT !.status = "KeyError", !.error = <<"Relative strength", symbol>>]
    ELSE IF symbol \notin DOMAIN base_lengths
    THEN [acc EXCEPT !.status = "KeyError", !.error = <<"Base length", symbol>>]
    ELSE CHOOSE r \in {IF ev.status # "ok"
                       THEN [acc EXCEPT !.status = ev.status,
                                        !.error = <<"evaluate", symbol>>]
                       ELSE after_evaluation(acc, symbol, ev, sizer_config) :
                       ev \in {evaluate(Series(price), relative_strengths[symbol],
                                        base_lengths[symbol], config)}} : TRUE

RECURSIVE loop(_, _, _, _, _, _, _)
\* The loop from item i on; an exception ends it.
loop(acc, i, price_series, relative_strengths, base_lengths, config, sizer_config) ==
    IF i > Len(price_series) \/ acc.status # "ok" THEN acc
    ELSE CHOOSE r \in {loop(next, i + 1, price_series, relative_strengths, base_lengths,
                            config, sizer_config) :
                       next \in {loop_body(acc, price_series[i][1], price_series[i][2],
                                           relative_strengths, base_lengths, config,
                                           sizer_config)}} : TRUE

\* a.score > b.score on the floats.
ScoreGt(a, b) == RGt(a.evaluation.score, b.evaluation.score)

RECURSIVE insert_desc(_, _)
\* x put into a list sorted by descending score, behind every element that does
\* not score lower than x.
insert_desc(sorted, x) ==
    IF sorted = <<>> THEN <<x>>
    ELSE IF ScoreGt(x, Head(sorted)) THEN <<x>> \o sorted
    ELSE <<Head(sorted)>> \o insert_desc(Tail(sorted), x)

RECURSIVE insert_desc_unstable(_, _)
\* Mutant of insert_desc: x goes in front of the elements with its score.
insert_desc_unstable(sorted, x) ==
    IF sorted = <<>> THEN <<x>>
    ELSE IF ~ScoreGt(Head(sorted), x) THEN <<x>> \o sorted
    ELSE <<Head(sorted)>> \o insert_desc_unstable(Tail(sorted), x)

RECURSIVE sort_by_score(_, _)
\* results.sort(key=score, reverse=True): a stable sort, here by insertion of
\* the elements in list order; k elements are in place.
sort_by_score(results, k) ==
    IF k = 0 THEN <<>>
    ELSE insert_desc(sort_by_score(results, k - 1), results[k])

RECURSIVE sort_by_score_unstable(_, _)
\* Mutant of sort_by_score: equal scores come out in reverse list order.
sort_by_score_unstable(results, k) ==
    IF k = 0 THEN <<>>
    ELSE insert_desc_unstable(sort_by_score_unstable(results, k - 1), results[k])

\* Mutant of sort_results: the unstable sort.
sort_results_unstable(results) == sort_by_score_unstable(results, Len(results))

\* Line 66.
sort_results(results) == sort_by_score(results, Len(results))

\* rank_candidates: the strategy the bot holds afterwards and the outcome of the
\* call.  returned is the list handed back, and <<>> with status # "ok", when the
\* call raised instead.
rank_candidates(config, sizer_config, j, price_series, relative_strengths, base_lengths) ==
    LET t == tuning_step(config, j)
    IN  CHOOSE r \in {[strategy |-> [config |-> t.config],
                       tuned |-> t.tuned,
                       rebuilt |-> t.rebuilt,
                       status |-> acc.status,
                       error |-> acc.error,
                       evaluations |-> acc.evaluations,
                       sized |-> acc.sized,
                       returned |-> IF acc.status = "ok"
                                    THEN sort_results(acc.results) ELSE <<>>] :
                      acc \in {IF t.status # "ok"
                               THEN [LoopStart EXCEPT !.status = t.status,
                                                      !.error = <<"adapt_config">>]
                               ELSE loop(LoopStart, 1, price_series, relative_strengths,
                                         base_lengths, t.config, sizer_config)}} : TRUE

\* TradeJournal.record_trade on the journal value and the path.
record_trade(j, record) ==
    LET records == Append(j.records, record)
    IN  [journal |-> [j EXCEPT !.records = records], file |-> persist(records)]

(***************************************************************************)
(* SpecEval: one call of evaluate on drawn arguments.                      *)
(***************************************************************************)
EvalRS == {65, 70, 90}
EvalBase == {34, 35}
EvalConfigs ==
    {DefaultConfig,
     [DefaultConfig EXCEPT !.rs_threshold = 90, !.max_pct_off_high = 15,
                           !.min_pct_from_low = 60],
     [DefaultConfig EXCEPT !.trend_lookback = MaxLen - W_SMA_200],
     [DefaultConfig EXCEPT !.trend_lookback = MaxLen + 1]}

NoJournal == [attached |-> FALSE, min_samples |-> 0, records |-> <<>>]

InitEval ==
    /\ strategy \in [config : EvalConfigs]
    /\ position_sizer = [config |-> DefaultSizerConfig]
    /\ journal = NoJournal
    /\ file = Absent
    /\ loaded = <<>>
    /\ appended = <<>>
    /\ call \in [op : {"args"}, price : SeriesParams, relative_strength : EvalRS,
                 base_length : EvalBase]

Evaluate ==
    /\ call.op = "args"
    /\ call' = [op |-> "evaluate",
                price |-> call.price,
                relative_strength |-> call.relative_strength,
                base_length |-> call.base_length,
                result |-> evaluate(Series(call.price), call.relative_strength,
                                    call.base_length, strategy.config)]
    /\ UNCHANGED <<strategy, position_sizer, journal, file, loaded, appended>>

NextEval == Evaluate

SpecEval == InitEval /\ [][NextEval]_vars

(***************************************************************************)
(* The trades, journals and ranking inputs the model feeds the program.    *)
(***************************************************************************)
\* A 10% gain, a 40% loss, and a trade entered at price 0 (return_pct 0.0).
TradeWin ==
    [symbol |-> "AAA", entry_price |-> 100, exit_price |-> 110, shares |-> 10,
     entry_date |-> "2023-01-01", exit_date |-> "2023-01-02"]
TradeLoss ==
    [symbol |-> "BBB", entry_price |-> 100, exit_price |-> 60, shares |-> 5,
     entry_date |-> "2023-02-01", exit_date |-> "2023-02-03"]
TradeZero ==
    [symbol |-> "CCC", entry_price |-> 0, exit_price |-> 50, shares |-> 1,
     entry_date |-> "2023-03-01", exit_date |-> "2023-03-04"]

Trades == {TradeWin, TradeLoss, TradeZero}

\* The record lists of at most n trades.
Journals(n) == UNION {[1..k -> Trades] : k \in 0..n}

\* TradeJournal(path) on an attached journal: min_samples defaults to 5.
DefaultMinSamples == 5

SymbolNames == <<"AAA", "BBB", "CCC", "DDD", "EEE", "FFF">>
Sym(i) == SymbolNames[i]

\* One item of a ranking input: the symbol's series, and its entries in the
\* relative-strength and base-length mappings, if it has them.
Cand(shape, n, has_rs, rs, has_bl, bl) ==
    [price |-> [n |-> n, shape |-> shape], has_rs |-> has_rs, rs |-> rs,
     has_bl |-> has_bl, bl |-> bl]

price_series_of(cands) == [i \in 1..Len(cands) |-> <<Sym(i), cands[i].price>>]

relative_strengths_of(cands) ==
    [s \in {Sym(i) : i \in {k \in 1..Len(cands) : cands[k].has_rs}} |->
        cands[CHOOSE i \in 1..Len(cands) : Sym(i) = s].rs]

base_lengths_of(cands) ==
    [s \in {Sym(i) : i \in {k \in 1..Len(cands) : cands[k].has_bl}} |->
        cands[CHOOSE i \in 1..Len(cands) : Sym(i) = s].bl]

\* bot.rank_candidates(price_series, relative_strengths=, base_lengths=) on the
\* bot of the state: the outcome, with the arguments and the config before it.
RankOutcome(cands) ==
    LET r == rank_candidates(strategy.config, position_sizer.config, journal,
                             price_series_of(cands), relative_strengths_of(cands),
                             base_lengths_of(cands))
    IN  [op |-> "rank", input |-> cands, config_before |-> strategy.config,
         tuned |-> r.tuned, rebuilt |-> r.rebuilt, config_after |-> r.strategy.config,
         status |-> r.status, error |-> r.error, evaluations |-> r.evaluations,
         sized |-> r.sized, returned |-> r.returned]

(***************************************************************************)
(* SpecTuner: one call of adapt_config on a drawn journal and config, and  *)
(* a call of rank_candidates after it.                                     *)
(***************************************************************************)
MaxRecords == 6

MinSamplesSet == {0, 1, 3, DefaultMinSamples}

\* Configs inside, at and outside the clamps of the tuner.
TunerConfigs ==
    {DefaultConfig,
     [DefaultConfig EXCEPT !.rs_threshold = 93, !.max_pct_off_high = 16,
                           !.min_pct_from_low = 12],
     [DefaultConfig EXCEPT !.rs_threshold = 95, !.max_pct_off_high = 15,
                           !.min_pct_from_low = 10, !.trend_lookback = 20],
     [DefaultConfig EXCEPT !.rs_threshold = 62, !.min_volume_dry_up_ratio = 40,
                           !.min_base_length = 20],
     [DefaultConfig EXCEPT !.rs_threshold = 100, !.max_pct_off_high = 10,
                           !.min_pct_from_low = 5],
     [DefaultConfig EXCEPT !.rs_threshold = 50]}

TunerRankInput == <<Cand("up", 1, TRUE, 90, TRUE, 60)>>

InitTuner ==
    /\ strategy \in [config : TunerConfigs]
    /\ position_sizer = [config |-> DefaultSizerConfig]
    /\ journal \in [attached : {TRUE}, min_samples : MinSamplesSet,
                    records : Journals(MaxRecords)]
    /\ file = IF journal.records = <<>> THEN Absent ELSE persist(journal.records)
    /\ loaded = journal.records
    /\ appended = <<>>
    /\ call = [op |-> "init"]

\* journal.adapt_config(config) with the bot's config.
AdaptConfig ==
    /\ call.op = "init"
    /\ call' = [op |-> "adapt_config",
                config |-> strategy.config,
                result |-> adapt_config(journal.records, journal.min_samples,
                                        strategy.config)]
    /\ UNCHANGED <<strategy, position_sizer, journal, file, loaded, appended>>

\* bot.rank_candidates, directly or after the adapt_config call.
RankAfter ==
    /\ call.op \in {"init", "adapt_config"}
    /\ \E out \in {RankOutcome(TunerRankInput)} :
        /\ call' = out
        /\ strategy' = [config |-> out.config_after]
    /\ UNCHANGED <<position_sizer, journal, file, loaded, appended>>

NextTuner == AdaptConfig \/ RankAfter

SpecTuner == InitTuner /\ [][NextTuner]_vars

(***************************************************************************)
(* SpecJournal: a journal opened on a path, appended to and opened again.  *)
(***************************************************************************)
MaxStored == 2

InitJournal ==
    /\ strategy = [config |-> DefaultConfig]
    /\ position_sizer = [config |-> DefaultSizerConfig]
    /\ file \in {Absent, BlankFile} \cup {persist(r) : r \in Journals(MaxStored)}
    /\ journal = [attached |-> TRUE, min_samples |-> DefaultMinSamples,
                  records |-> load(file)]
    /\ loaded = load(file)
    /\ appended = <<>>
    /\ call = [op |-> "open"]

\* journal.record_trade(record)
RecordTrade ==
    /\ Len(journal.records) < MaxRecords
    /\ \E record \in Trades :
        \E out \in {record_trade(journal, record)} :
            /\ journal' = out.journal
            /\ file' = out.file
            /\ appended' = Append(appended, record)
            /\ call' = [op |-> "record_trade", record |-> record]
    /\ UNCHANGED <<strategy, position_sizer, loaded>>

\* TradeJournal(path): a new journal on the same path takes the place of the old.
Reopen ==
    /\ journal' = [journal EXCEPT !.records = load(file)]
    /\ loaded' = load(file)
    /\ appended' = <<>>
    /\ call' = [op |-> "open"]
    /\ UNCHANGED <<strategy, position_sizer, file>>

NextJournal == RecordTrade \/ Reopen

SpecJournal == InitJournal /\ [][NextJournal]_vars

(***************************************************************************)
(* SpecWriters: one or two TradeJournal instances on the same path, each   *)
(* used by its own caller.  record_trade is two steps, the append to the   *)
(* instance's list and the rewrite of the path, and the steps of different *)
(* instances interleave.  Here journal is the sequence of the instances    *)
(* and appended lists the records whose record_trade has returned.         *)
(***************************************************************************)
MaxWriters == 2
MaxWrites == 3

\* TradeJournal(path) when the path holds f.
open_journal(f) ==
    [attached |-> TRUE, min_samples |-> DefaultMinSamples, records |-> load(f),
     pc |-> "idle"]

InitWriters ==
    /\ strategy = [config |-> DefaultConfig]
    /\ position_sizer = [config |-> DefaultSizerConfig]
    /\ file \in {Absent, persist(<<TradeZero>>)}
    /\ \E n \in 1..MaxWriters : journal = [w \in 1..n |-> open_journal(file)]
    /\ loaded = load(file)
    /\ appended = <<>>
    /\ call = [op |-> "open"]

\* Writes begun so far: the returned ones and the ones between their two steps.
Writes == Len(appended) + Cardinality({w \in DOMAIN journal : journal[w].pc = "persist"})

\* Line 75 of instance w: self._records.append(record)
AppendRecord(w) ==
    /\ journal[w].pc = "idle"
    /\ Writes < MaxWrites
    /\ \E record \in Trades :
        /\ journal' = [journal EXCEPT ![w].records = Append(@, record),
                                      ![w].pc = "persist"]
        /\ call' = [op |-> "append", writer |-> w, record |-> record]
    /\ UNCHANGED <<strategy, position_sizer, file, loaded, appended>>

\* Line 76 of instance w: self._persist(), after which record_trade returns.
Persist(w) ==
    /\ journal[w].pc = "persist"
    /\ file' = persist(journal[w].records)
    /\ journal' = [journal EXCEPT ![w].pc = "idle"]
    /\ appended' = Append(appended, journal[w].records[Len(journal[w].records)])
    /\ call' = [op |-> "record_trade", writer |-> w,
                record |-> journal[w].records[Len(journal[w].records)]]
    /\ UNCHANGED <<strategy, position_sizer, loaded>>

\* The caller of instance w replaces it by a new TradeJournal(path).
OpenAgain(w) ==
    /\ journal[w].pc = "idle"
    /\ call.op # "open"
    /\ journal' = [journal EXCEPT ![w] = open_journal(file)]
    /\ call' = [op |-> "open", writer |-> w]
    /\ UNCHANGED <<strategy, position_sizer, file, loaded, appended>>

NextWriters ==
    \E w \in DOMAIN journal : AppendRecord(w) \/ Persist(w) \/ OpenAgain(w)

SpecWriters == InitWriters /\ [][NextWriters]_vars

(***************************************************************************)
(* SpecRank: one call of rank_candidates on a drawn input.                 *)
(***************************************************************************)
MaxSymbols == 3

\* A qualifying candidate, one that scores higher, one disqualified by its
\* relative strength, a malformed series, and a symbol missing from each mapping.
CandKinds ==
    {Cand("up", 252, TRUE, 80, TRUE, 60),
     Cand("surge", 252, TRUE, 80, TRUE, 60),
     Cand("up", 252, TRUE, 60, TRUE, 60),
     Cand("mismatch", 252, TRUE, 90, TRUE, 60),
     Cand("up", 252, FALSE, 0, TRUE, 60),
     Cand("flat", 200, TRUE, 90, FALSE, 0)}

RankInputs == UNION {[1..k -> CandKinds] : k \in 0..MaxSymbols}

InitRank ==
    /\ strategy = [config |-> DefaultConfig]
    /\ position_sizer = [config |-> DefaultSizerConfig]
    /\ journal = NoJournal
    /\ file = Absent
    /\ loaded = <<>>
    /\ appended = <<>>
    /\ call \in [op : {"args"}, input : RankInputs]

RankOnce ==
    /\ call.op = "args"
    /\ \E out \in {RankOutcome(call.input)} :
        /\ call' = out
        /\ strategy' = [config |-> out.config_after]
    /\ UNCHANGED <<position_sizer, journal, file, loaded, appended>>

NextRank == RankOnce

SpecRank == InitRank /\ [][NextRank]_vars

(***************************************************************************)
(* Spec: the bot across calls of record_completed_trade and                *)
(* rank_candidates.                                                        *)
(***************************************************************************)
MaxBotRecords == 3

BotTrades == {TradeWin, TradeLoss}

BotMinSamples == 2

\* A candidate that qualifies under rs_threshold 70 and not under 75.
BotRankInputs == {<<>>, <<Cand("up", 252, TRUE, 72, TRUE, 60)>>}

Init ==
    /\ strategy = [config |-> DefaultConfig]
    /\ position_sizer = [config |-> DefaultSizerConfig]
    /\ journal \in {NoJournal} \cup
                   [attached : {TRUE}, min_samples : {0, BotMinSamples},
                    records : {<<>>}]
    /\ file = Absent
    /\ loaded = <<>>
    /\ appended = <<>>
    /\ call = [op |-> "init"]

\* bot.record_completed_trade(record)
RecordCompletedTrade ==
    /\ Len(journal.records) < MaxBotRecords
    /\ \E record \in BotTrades :
        IF ~journal.attached
        THEN /\ call' = [op |-> "record_completed_trade", record |-> record,
                         status |-> "RuntimeError"]
             /\ UNCHANGED <<strategy, position_sizer, journal, file, loaded, appended>>
        ELSE \E out \in {record_trade(journal, record)} :
                /\ journal' = out.journal
                /\ file' = out.file
                /\ appended' = Append(appended, record)
                /\ call' = [op |-> "record_completed_trade", record |-> record,
                            status |-> "ok"]
                /\ UNCHANGED <<strategy, position_sizer, loaded>>

\* bot.rank_candidates(...)
RankCandidates ==
    /\ \E input \in BotRankInputs :
        \E out \in {RankOutcome(input)} :
            /\ call' = out
            /\ strategy' = [config |-> out.config_after]
    /\ UNCHANGED <<position_sizer, journal, file, loaded, appended>>

Next == RecordCompletedTrade \/ RankCandidates

Spec == Init /\ [][Next]_vars

(***************************************************************************)
(* SpecSizer: one call of size_position on a drawn sizer config, entry     *)
(* price and ATR, computed in a narrow float format.                       *)
(***************************************************************************)
MantissaBits == 8
MaxExponent == 20

SizerFormat == [bits |-> MantissaBits, emax |-> MaxExponent]

\* Decimal literals <<n, d>> for the sizer's config and arguments.
EquityLiterals == {<<100000, 1>>, <<1000, 1>>}
RiskFractionLiterals == {<<1, 100>>, <<1, 64>>, <<0, 1>>, <<-1, 100>>}
MultiplierLiterals == {<<2, 1>>, <<3, 2>>, <<0, 1>>, <<-1, 1>>}
EntryLiterals == {<<0, 1>>, <<-5, 1>>, <<100, 1>>, <<503, 10>>, <<1, 1024>>}
AtrLiterals == {<<0, 1>>, <<-1, 1>>, <<5, 1>>, <<7, 10>>, <<1, 16>>, <<1, 65536>>}

SizerConfigs ==
    {[account_equity |-> Fl(SizerFormat, e[1], e[2]),
      risk_fraction |-> Fl(SizerFormat, r[1], r[2]),
      atr_multiplier |-> Fl(SizerFormat, m[1], m[2])] :
        e \in EquityLiterals, r \in RiskFractionLiterals, m \in MultiplierLiterals}

InitSizer ==
    /\ strategy = [config |-> DefaultConfig]
    /\ position_sizer \in [config : SizerConfigs]
    /\ journal = NoJournal
    /\ file = Absent
    /\ loaded = <<>>
    /\ appended = <<>>
    /\ call \in {[op |-> "args",
                  entry_price |-> Fl(SizerFormat, e[1], e[2]),
                  atr |-> Fl(SizerFormat, a[1], a[2])] :
                    e \in EntryLiterals, a \in AtrLiterals}

\* position_sizer.size_position(entry_price, atr)
SizePosition ==
    /\ call.op = "args"
    /\ call' = [op |-> "size_position", entry_price |-> call.entry_price,
                atr |-> call.atr,
                result |-> size_position_fl(SizerFormat, position_sizer.config,
                                            call.entry_price, call.atr)]
    /\ UNCHANGED <<strategy, position_sizer, journal, file, loaded, appended>>

NextSizer == SizePosition

SpecSizer == InitSizer /\ [][NextSizer]_vars

(***************************************************************************)
(* SpecRolling: one call of a rolling function on a drawn list and window, *)
(* the rolling mean computed in a narrow float format.                     *)
(***************************************************************************)
MaxValues == 4

RollingFormat == [bits |-> MantissaBits, emax |-> MaxExponent]

\* Integer-valued floats of the format: 256 + 1 is not one of them.
RollingValues == {1, 3, 255, 256}
RollingWindows == (-1)..(MaxValues + 1)

InitRolling ==
    /\ strategy = [config |-> DefaultConfig]
    /\ position_sizer = [config |-> DefaultSizerConfig]
    /\ journal = NoJournal
    /\ file = Absent
    /\ loaded = <<>>
    /\ appended = <<>>
    /\ call \in [op : {"args"},
                 values : UNION {[1..n -> RollingValues] : n \in 0..MaxValues},
                 window : RollingWindows]

\* _rolling_mean(values, window)
RollingMean ==
    /\ call.op = "args"
    /\ call' = [op |-> "rolling_mean", values |-> call.values, window |-> call.window,
                result |-> rolling_mean_fl(RollingFormat, call.values, call.window)]
    /\ UNCHANGED <<strategy, position_sizer, journal, file, loaded, appended>>

\* _rolling_max(values, window)
RollingMax ==
    /\ call.op = "args"
    /\ call' = [op |-> "rolling_max", values |-> call.values, window |-> call.window,
                result |-> rolling_max(call.values, call.window)]
    /\ UNCHANGED <<strategy, position_sizer, journal, file, loaded, appended>>

\* _rolling_min(values, window)
RollingMin ==
    /\ call.op = "args"
    /\ call' = [op |-> "rolling_min", values |-> call.values, window |-> call.window,
                result |-> rolling_min(call.values, call.window)]
    /\ UNCHANGED <<strategy, position_sizer, journal, file, loaded, appended>>

NextRolling == RollingMean \/ RollingMax \/ RollingMin

SpecRolling == InitRolling /\ [][NextRolling]_vars

(***************************************************************************)
(* SpecPasses: a bot with a journal, ranking again and again.  FairPasses  *)
(* is the same bot when its caller keeps calling rank_candidates.          *)
(***************************************************************************)
\* Starting configs below, between and above the clamps of the tuner.
StartConfigs ==
    {[DefaultConfig EXCEPT !.rs_threshold = r, !.max_pct_off_high = h,
                           !.min_pct_from_low = l] :
        r \in {50, 93, 100}, h \in {10, 25}, l \in {5, 30}}

PassMinSamples == {1, 3}

InitPasses ==
    /\ strategy \in [config : StartConfigs]
    /\ position_sizer = [config |-> DefaultSizerConfig]
    /\ \E records \in UNION {[1..k -> BotTrades] : k \in 0..MaxBotRecords} :
        /\ journal \in [attached : {TRUE}, min_samples : PassMinSamples,
                        records : {records}]
        /\ file = persist(records)
        /\ loaded = records
    /\ appended = <<>>
    /\ call = [op |-> "init"]

\* bot.rank_candidates({}, relative_strengths={}, base_lengths={}): a pass over
\* no symbols, which tunes and rebuilds as any pass does.
RankPass ==
    /\ \E out \in {RankOutcome(<<>>)} :
        /\ call' = out
        /\ strategy' = [config |-> out.config_after]
    /\ UNCHANGED <<position_sizer, journal, file, loaded, appended>>

NextPasses == RankPass \/ RecordCompletedTrade

SpecPasses == InitPasses /\ [][NextPasses]_vars

\* ENABLED <<RankPass>>_vars written out: a pass would change call or strategy.
PassDue ==
    \/ RankOutcome(<<>>) # call
    \/ [config |-> RankOutcome(<<>>).config_after] # strategy

\* Weak fairness of RankPass, with PassDue as its enabling condition: the
\* caller does not stop calling rank_candidates.
FairPasses == SpecPasses /\ ([]<>(~PassDue) \/ []<><<RankPass>>_vars)

(***************************************************************************)
(* SpecStops: one call of rank_candidates under a drawn sizer config, with *)
(* the two stop prices of each returned candidate as floats of a narrow    *)
(* format compute them.                                                    *)
(***************************************************************************)
\* Mutant of stop_price_fl: three ATRs below the close.
stop_price_fl_triple(fmt, close_price, atr_value) ==
    FSub(fmt, close_price, FMul(fmt, FromInt(3), atr_value))

\* strategy.py line 253, close_price - 2.0 * atr, in the format.
stop_price_fl(fmt, close_price, atr_value) ==
    FSub(fmt, close_price, FMul(fmt, FromInt(2), atr_value))

\* Lines 61-64 of bot.py for one returned candidate, in the format: the entry
\* price and the ATR of its evaluation as the format holds them, the stop price
\* of the evaluation and the sizer's answer on the two.
candidate_fl(fmt, sizer_config, result) ==
    LET entry_price == Round(fmt, result.evaluation.entry_price)
        atr_value == Round(fmt, result.evaluation.metrics.atr_14)
    IN  [symbol |-> result.symbol,
         entry_price |-> entry_price,
         atr_14 |-> atr_value,
         stop_price |-> stop_price_fl(fmt, entry_price, atr_value),
         sized |-> size_position_fl(fmt, sizer_config, entry_price, atr_value)]

\* atr_multiplier: the default, two others, and the format's next value above 2.
StopMultipliers == {<<2, 1>>, <<3, 2>>, <<3, 1>>, <<129, 64>>}

StopSizerConfigs ==
    [account_equity : EquityLiterals, risk_fraction : {<<1, 100>>},
     atr_multiplier : StopMultipliers]

\* Up to two symbols: three that qualify and one that does not.
StopInputs ==
    UNION {[1..k -> {Cand("up", 252, TRUE, 80, TRUE, 60),
                     Cand("up", MaxLen, TRUE, 80, TRUE, 60),
                     Cand("surge", 252, TRUE, 80, TRUE, 60),
                     Cand("up", 252, TRUE, 60, TRUE, 60)}] : k \in 0..2}

InitStops ==
    /\ strategy = [config |-> DefaultConfig]
    /\ position_sizer \in [config : StopSizerConfigs]
    /\ journal = NoJournal
    /\ file = Absent
    /\ loaded = <<>>
    /\ appended = <<>>
    /\ call \in [op : {"args"}, input : StopInputs]

RankStops ==
    /\ call.op = "args"
    /\ \E out \in {RankOutcome(call.input)} :
        /\ call' = [op |-> "rank", input |-> out.input, status |-> out.status,
                    returned |-> out.returned,
                    floats |-> [i \in 1..Len(out.returned) |->
                                   candidate_fl(SizerFormat, position_sizer.config,
                                                out.returned[i])]]
        /\ strategy' = [config |-> out.config_after]
    /\ UNCHANGED <<position_sizer, journal, file, loaded, appended>>

NextStops == RankStops

SpecStops == InitStops /\ [][NextStops]_vars

(***************************************************************************)
(* Claims on evaluate (SpecEval).                                          *)
(***************************************************************************)
\* The call is a returned evaluation of a well-formed series.
Evaluated == call.op = "evaluate" /\ call.price.shape \in Shapes

LatestClose == FromInt(CloseAt(call.price.shape, call.price.n, call.price.n))

\* C1: a series shorter than 200 periods (so that the 200-period average, at
\* least, is undefined at the latest index) evaluates to qualifies = false,
\* score = 0.0, the single reason "Not enough data to compute moving averages",
\* and entry_price = stop_price = latest close, whatever relative_strength,
\* base_length and config are.
C1_InsufficientData ==
    (Evaluated /\ call.price.n < W_SMA_200) =>
        /\ call.result.status = "ok"
        /\ call.result.qualifies = FALSE
        /\ call.result.score = FromInt(0)
        /\ call.result.reasons = <<MsgNoData>>
        /\ call.result.entry_price = LatestClose
        /\ call.result.stop_price = LatestClose

\* C1's case: 150 periods (the 50- and 150-period averages are defined, the
\* 200-period one is not), a relative strength and base length that would pass.
C1_Witness ==
    /\ Evaluated
    /\ call.price = [n |-> 150, shape |-> "up"]
    /\ call.relative_strength = 90
    /\ call.base_length = 35
    /\ call.result.reasons = <<MsgNoData>>

\* The values the checks of section 4.2 are stated on, read from the indicators
\* of the call's series.
CallLatest ==
    latest_values(calculate_indicators(Series(call.price)), strategy.config.trend_lookback)

Sel(violated, msg) == IF violated THEN <<msg>> ELSE <<>>

\* The reasons section 4.2 prescribes: one message per violated check 2-10, in
\* check order.
ExpectedReasons(m, rs, bl, cfg) ==
    Sel(~(RGt(m.sma_50, m.sma_150) /\ RGt(m.sma_150, m.sma_200)), MsgStacked)
    \o (IF m.has_earlier
        THEN Sel(isnan(m.earlier) \/ ~RGt(m.sma_200, m.earlier), MsgTrend)
        ELSE <<MsgNoTrend>>)
    \o Sel(~(RGt(m.close_price, m.sma_50) /\ RGt(m.close_price, m.sma_150)), MsgAboveMA)
    \o Sel(~(isfinite(m.pct_off_high)
             /\ RLe(m.pct_off_high, Pct(cfg.max_pct_off_high))), MsgOffHigh)
    \o Sel(~(isfinite(m.pct_from_low)
             /\ RGe(m.pct_from_low, Pct(cfg.min_pct_from_low))), MsgFromLow)
    \o Sel(~(rs >= cfg.rs_threshold), MsgRS)
    \o Sel(~(isfinite(m.volume_dry_up)
             /\ RGe(m.volume_dry_up, Pct(cfg.min_volume_dry_up_ratio))), MsgVolume)
    \o Sel(~(bl >= cfg.min_base_length), MsgBase)
    \o Sel(~(isfinite(m.atr_14) /\ RGt(m.atr_14, FromInt(0))), MsgATR)

\* C2: past the moving-average gate (200 periods or more) every check 2-10 runs:
\* the reasons are exactly the messages of the violated checks, in check order,
\* qualifies is true iff there is no reason, and the score of a disqualified
\* evaluation is 0.0.
C2_AllChecksRun ==
    (Evaluated /\ call.price.n >= W_SMA_200) =>
        /\ call.result.status = "ok"
        /\ call.result.reasons =
              ExpectedReasons(CallLatest, call.relative_strength, call.base_length,
                              strategy.config)
        /\ call.result.qualifies = (call.result.reasons = <<>>)
        /\ (~call.result.qualifies => call.result.score = FromInt(0))

\* C2's case: an evaluation past the gate that fails several checks at once,
\* the first and the last among them.
C2_Witness ==
    /\ Evaluated
    /\ call.price.n >= W_SMA_200
    /\ Len(call.result.reasons) >= 4
    /\ call.result.reasons[1] = MsgStacked
    /\ call.result.reasons[Len(call.result.reasons)] = MsgATR
    /\ ~call.result.qualifies

\* C2's other case: an evaluation past the gate that qualifies.
C2_WitnessQualifies ==
    Evaluated /\ call.result.status = "ok" /\ call.result.qualifies

(***************************************************************************)
(* Claims on the journal's tuner (SpecTuner).                              *)
(***************************************************************************)
IntMin(a, b) == IF a < b THEN a ELSE b
IntMax(a, b) == IF a > b THEN a ELSE b

\* The last n records of a list (all of them when it holds fewer).
LastRecords(records, n) ==
    SubSeq(records, Len(records) - IntMin(n, Len(records)) + 1, Len(records))

RECURSIVE TotalReturn(_, _)
TotalReturn(w, k) ==
    IF k = 0 THEN FromInt(0) ELSE RAdd(TotalReturn(w, k - 1), return_pct(w[k]))

\* winRate and meanReturn of a window with at least one record.
WinRate(w) ==
    Rat(Cardinality({i \in 1..Len(w) : RGt(return_pct(w[i]), FromInt(0))}), Len(w))
MeanReturn(w) == RDiv(TotalReturn(w, Len(w)), FromInt(Len(w)))

Winning(w) ==
    Len(w) > 0 /\ RGt(WinRate(w), Rat(6, 10)) /\ RGt(MeanReturn(w), FromInt(0))
Losing(w) == Len(w) > 0 /\ RLt(WinRate(w), Rat(4, 10))

\* The tuned config the adaptation rule states for a window.
StatedTuning(config, w) ==
    IF Winning(w)
    THEN [config EXCEPT !.rs_threshold = IntMin(config.rs_threshold + 5, 95),
                        !.max_pct_off_high = IntMax(config.max_pct_off_high - 2, 15)]
    ELSE IF Losing(w)
    THEN [config EXCEPT !.rs_threshold = IntMax(config.rs_threshold - 5, 60),
                        !.min_pct_from_low = IntMax(config.min_pct_from_low - 5, 10)]
    ELSE config

Adapted == call.op = "adapt_config"
Window == LastRecords(journal.records, journal.min_samples)

\* C4: for a journal holding at least min_samples records, adapt_config returns
\* a config that depends only on the input config and the last min_samples
\* records (the same as for a journal holding only those records): the stated
\* tuning of the input for the window's winRate and meanReturn, with
\* min_volume_dry_up_ratio, trend_lookback and min_base_length as in the input.
C4_AdaptFromWindow ==
    (Adapted /\ Len(journal.records) >= journal.min_samples) =>
        /\ call.result.status = "ok"
        /\ call.result = adapt_config(Window, journal.min_samples, call.config)
        /\ Len(Window) > 0 => call.result.config = StatedTuning(call.config, Window)
        /\ call.result.config.min_volume_dry_up_ratio = call.config.min_volume_dry_up_ratio
        /\ call.result.config.trend_lookback = call.config.trend_lookback
        /\ call.result.config.min_base_length = call.config.min_base_length

\* C4 for min_samples of at least 1: the part of the statement the code meets.
C4_PositiveMinSamples == journal.min_samples >= 1 => C4_AdaptFromWindow

\* Older records of another outcome in front of a winning window.
C4_Witness ==
    /\ Adapted
    /\ journal.min_samples = 3
    /\ Len(journal.records) = 6
    /\ \A i \in 1..3 : journal.records[i] = TradeLoss
    /\ Winning(Window)
    /\ call.result.status = "ok"
    /\ call.result.config.rs_threshold = call.config.rs_threshold + 5

\* C5: for a journal holding fewer than min_samples records adapt_config returns
\* a config equal to its input, the call leaves the journal's records and file
\* as they were, and a rank_candidates call on that journal does not rebuild the
\* evaluator and leaves the bot's config as it was.
C5_TooFewRecords ==
    (Len(journal.records) < journal.min_samples) =>
        /\ Adapted => call.result = [status |-> "ok", config |-> call.config]
        /\ call.op = "rank" =>
            /\ ~call.rebuilt
            /\ call.status = "ok"
            /\ strategy.config = call.config_before

C5_NoAdaptation ==
    /\ []C5_TooFewRecords
    /\ [][call'.op = "adapt_config" => journal' = journal /\ file' = file]_vars

\* Winning trades only, too few of them; the rebuild is seen when they suffice.
C5_Witness ==
    /\ Adapted
    /\ journal.min_samples = DefaultMinSamples
    /\ Len(journal.records) = DefaultMinSamples - 1
    /\ \A i \in 1..Len(journal.records) : journal.records[i] = TradeWin
    /\ call.result.config = call.config

\* adapt_config was called on a journal that holds a whole window.
AdaptedFromWindow ==
    Adapted /\ journal.min_samples >= 1 /\ Len(journal.records) >= journal.min_samples

\* C6 as stated, for every input config: a winning window never lowers
\* rs_threshold nor raises max_pct_off_high, a losing window never raises
\* rs_threshold nor min_pct_from_low.
C6_EveryConfig ==
    AdaptedFromWindow =>
        /\ call.result.status = "ok"
        /\ Winning(Window) =>
            /\ call.result.config.rs_threshold >= call.config.rs_threshold
            /\ call.result.config.max_pct_off_high <= call.config.max_pct_off_high
        /\ Losing(Window) =>
            /\ call.result.config.rs_threshold <= call.config.rs_threshold
            /\ call.result.config.min_pct_from_low <= call.config.min_pct_from_low

\* C6, amended: a threshold moves only in the stated direction when the input
\* has it on the permitted side of its bound (rs_threshold at most 95 and
\* max_pct_off_high at least 0.15 for a winning window, rs_threshold at least 60
\* and min_pct_from_low at least 0.10 for a losing one); a threshold beyond its
\* bound is set to the bound.
C6_WithinBounds ==
    AdaptedFromWindow =>
        LET in == call.config
            out == call.result.config
        IN  /\ call.result.status = "ok"
            /\ Winning(Window) =>
                /\ IF in.rs_threshold <= 95 THEN out.rs_threshold >= in.rs_threshold
                   ELSE out.rs_threshold = 95
                /\ IF in.max_pct_off_high >= 15
                   THEN out.max_pct_off_high <= in.max_pct_off_high
                   ELSE out.max_pct_off_high = 15
            /\ Losing(Window) =>
                /\ IF in.rs_threshold >= 60 THEN out.rs_threshold <= in.rs_threshold
                   ELSE out.rs_threshold = 60
                /\ IF in.min_pct_from_low >= 10
                   THEN out.min_pct_from_low <= in.min_pct_from_low
                   ELSE out.min_pct_from_low = 10

\* A winning window that lowers rs_threshold and raises max_pct_off_high.
C6_Witness ==
    /\ Adapted
    /\ Winning(Window)
    /\ Len(journal.records) >= journal.min_samples
    /\ call.config.rs_threshold = 100
    /\ call.result.config.rs_threshold = 95
    /\ call.config.max_pct_off_high = 10
    /\ call.result.config.max_pct_off_high = 15

(***************************************************************************)
(* Claims on the journal's storage (SpecJournal).                          *)
(***************************************************************************)
\* C10: the journal's records are the records loaded when it was opened followed
\* by the appended records in call order; after every append the file holds that
\* same sequence; a new journal opened on the path reads back the records the
\* old one held, in order and with equal fields.
C10_Records ==
    /\ journal.records = loaded \o appended
    /\ appended # <<>> =>
        /\ file.exists /\ ~file.blank
        /\ Len(file.items) = Len(journal.records)
    /\ load(file) = journal.records

C10_AppendOnly ==
    /\ []C10_Records
    /\ [][call'.op = "open" => journal'.records = journal.records]_vars
    /\ [][call'.op = "record_trade" =>
            /\ journal'.records = Append(journal.records, call'.record)
            /\ load(file') = journal'.records]_vars

\* Loaded records of two kinds, then two appends of a third and a first kind.
C10_Witness ==
    /\ loaded = <<TradeWin, TradeLoss>>
    /\ appended = <<TradeZero, TradeWin>>
    /\ load(file) = <<TradeWin, TradeLoss, TradeZero, TradeWin>>

(***************************************************************************)
(* Claims on one ranking pass (SpecRank).                                  *)
(***************************************************************************)
Ranked == call.op = "rank"
Returned == Ranked /\ call.status = "ok"

\* The place of a symbol in the iteration order of the price-series mapping.
Pos(symbol) == CHOOSE i \in 1..Len(SymbolNames) : Sym(i) = symbol

ScoreAt(i) == call.returned[i].evaluation.score

\* C7: the returned list is in descending order of score, and results of equal
\* score stand in the order of their symbols in the price-series mapping.
C7_SortedStable ==
    Returned =>
        \A i, j \in 1..Len(call.returned) :
            i < j =>
                /\ RGe(ScoreAt(i), ScoreAt(j))
                /\ ScoreAt(i) = ScoreAt(j) =>
                    Pos(call.returned[i].symbol) < Pos(call.returned[j].symbol)

\* The second symbol scores highest and the first and third tie.
C7_Witness ==
    /\ Returned
    /\ Len(call.returned) = 3
    /\ call.returned[1].symbol = Sym(2)
    /\ call.returned[2].symbol = Sym(1)
    /\ call.returned[3].symbol = Sym(3)
    /\ RGt(ScoreAt(1), ScoreAt(2))
    /\ ScoreAt(2) = ScoreAt(3)

\* The evaluations the pass obtained that qualify.
QualifiedAt(k) == call.evaluations[k][2].qualifies

\* C8: on a normal return every symbol was evaluated, and the list holds exactly
\* one result (with that evaluation) for each symbol that qualifies and none
\* for any other; the sizer is called for qualifying symbols only; the symbol an
\* error is raised for is never one whose evaluation did not qualify.
C8_QualifyingOnly ==
    Ranked =>
        /\ Returned =>
            /\ Len(call.evaluations) = Len(call.input)
            /\ \A k \in 1..Len(call.input) :
                /\ call.evaluations[k][1] = Sym(k)
                /\ Cardinality({i \in 1..Len(call.returned) :
                                    call.returned[i].symbol = Sym(k)})
                        = IF QualifiedAt(k) THEN 1 ELSE 0
                /\ \A i \in 1..Len(call.returned) :
                        call.returned[i].symbol = Sym(k) =>
                            call.returned[i].evaluation = call.evaluations[k][2]
            /\ \A i \in 1..Len(call.returned) :
                    Pos(call.returned[i].symbol) \in 1..Len(call.input)
        /\ \A i \in 1..Len(call.sized) :
                \E k \in 1..Len(call.evaluations) :
                    call.evaluations[k][1] = call.sized[i] /\ QualifiedAt(k)
        /\ call.status # "ok" =>
                \A k \in 1..Len(call.evaluations) :
                    ~QualifiedAt(k) => call.evaluations[k][1] # call.error[2]

\* Three symbols, the middle one not qualifying.
C8_Witness ==
    /\ Returned
    /\ Len(call.input) = 3
    /\ QualifiedAt(1) /\ ~QualifiedAt(2) /\ QualifiedAt(3)
    /\ Len(call.returned) = 2
    /\ call.sized = <<Sym(1), Sym(3)>>

Missing(c) == ~c.has_rs \/ ~c.has_bl
MissingAt == {k \in 1..Len(call.input) : Missing(call.input[k])}
FirstMissing == CHOOSE k \in MissingAt : \A m \in MissingAt : k <= m
MalformedBefore(k) == {i \in 1..(k - 1) : call.input[i].price.shape \in BadShapes}

\* C9 as stated: for any symbol without a relative strength or a base length,
\* the call fails with a missing-key error naming that symbol and returns no list.
C9_AnyMissing ==
    Ranked =>
        \A k \in MissingAt :
            /\ call.status = "KeyError"
            /\ call.error[2] = Sym(k)
            /\ call.returned = <<>>

\* C9, amended: when some symbol lacks an entry and every symbol before the
\* first such symbol is evaluated without an error, the call fails with a
\* missing-key error naming that first symbol (for the relative strength if it
\* lacks both) and returns no list, whatever the symbol's series; when an earlier
\* symbol's series is malformed, the call fails with that symbol's validation
\* error instead, and returns no list either.
C9_FirstMissing ==
    (Ranked /\ MissingAt # {}) =>
        /\ call.returned = <<>>
        /\ IF MalformedBefore(FirstMissing) = {}
           THEN /\ call.status = "KeyError"
                /\ call.error =
                     <<IF ~call.input[FirstMissing].has_rs
                       THEN "Relative strength" ELSE "Base length",
                       Sym(FirstMissing)>>
           ELSE /\ call.status = "ValueError"
                /\ \E i \in MalformedBefore(FirstMissing) :
                        /\ call.error = <<"evaluate", Sym(i)>>
                        /\ \A m \in MalformedBefore(FirstMissing) : i <= m

\* A qualifying symbol was evaluated and sized before the symbol without a base
\* length was met: no list is returned.
C9_Witness ==
    /\ Ranked
    /\ Len(call.input) = 3
    /\ MissingAt = {2, 3}
    /\ call.input[2].has_rs /\ ~call.input[3].has_rs
    /\ call.sized = <<Sym(1)>>
    /\ call.status = "KeyError"
    /\ call.error = <<"Base length", Sym(2)>>
    /\ call.returned = <<>>

(***************************************************************************)
(* Claims on the bot across ranking passes (Spec).                         *)
(***************************************************************************)
\* C3: with a journal attached, a rank_candidates call holds adapt_config of the
\* config the bot had before the call as its tuned config, replaces the
\* evaluator if and only if that config differs from the one before, and
\* evaluates every symbol of the pass under the tuned config (a call whose
\* adapt_config raises ends with that exception and the bot as it was); with no
\* journal attached no step changes the bot's config.
C3_Pass ==
    Ranked =>
        IF journal.attached
        THEN LET tuned == adapt_config(journal.records, journal.min_samples,
                                       call.config_before)
             IN  IF tuned.status # "ok"
                 THEN /\ call.status = tuned.status
                      /\ call.evaluations = <<>>
                      /\ ~call.rebuilt
                      /\ strategy.config = call.config_before
                 ELSE
                 /\ call.tuned = tuned.config
                 /\ call.rebuilt = (tuned.config # call.config_before)
                 /\ strategy.config = tuned.config
                 /\ Len(call.evaluations) = Len(call.input)
                 /\ \A k \in 1..Len(call.input) :
                        call.evaluations[k] =
                            <<Sym(k), evaluate(Series(call.input[k].price),
                                               call.input[k].rs, call.input[k].bl,
                                               tuned.config)>>
        ELSE /\ ~call.rebuilt
             /\ strategy.config = call.config_before

C3_TunedPass ==
    /\ []C3_Pass
    /\ [][~journal.attached => strategy' = strategy]_vars

\* The pass raised the threshold to 75 and the candidate with relative strength
\* 72, which qualified under 70, is turned down for it.
C3_Witness ==
    /\ Ranked
    /\ journal.attached
    /\ call.rebuilt
    /\ call.config_before.rs_threshold = 70
    /\ strategy.config.rs_threshold = 75
    /\ Len(call.evaluations) = 1
    /\ call.evaluations[1][2].reasons = <<MsgRS>>
    /\ call.returned = <<>>

(***************************************************************************)
(* Claims on the position sizer (SpecSizer).                               *)
(***************************************************************************)
Sized == call.op = "size_position"

\* equity * riskFraction and atrMultiplier * atr as the floats the claims name.
RiskCapital ==
    FMul(SizerFormat, position_sizer.config.account_equity,
         position_sizer.config.risk_fraction)
StopDistance == FMul(SizerFormat, position_sizer.config.atr_multiplier, call.atr)

PositiveArguments == RGt(call.entry_price, FromInt(0)) /\ RGt(call.atr, FromInt(0))

\* C11: for entry_price > 0, atr > 0 and perShareRisk = atr_multiplier * atr > 0
\* the plan has shares = floor(riskCapital / perShareRisk), risk_capital =
\* equity * risk_fraction, stop_price = entry_price - atr_multiplier * atr and
\* exposure = shares * entry_price, so that shares * perShareRisk is at most
\* riskCapital and (shares + 1) * perShareRisk is more.
C11_SharesFromBudget ==
    (Sized /\ PositiveArguments /\ RGt(StopDistance, FromInt(0))) =>
        /\ call.result.status = "ok"
        /\ call.result.plan.risk_capital = RiskCapital
        /\ call.result.plan.stop_price = FSub(SizerFormat, call.entry_price, StopDistance)
        /\ call.result.plan.shares = Floor(RDiv(RiskCapital, StopDistance))
        /\ "exposure" \in DOMAIN call.result.plan
        /\ call.result.plan.exposure =
                FMul(SizerFormat, Round(SizerFormat, FromInt(call.result.plan.shares)),
                     call.entry_price)
        /\ RLe(RMul(FromInt(call.result.plan.shares), StopDistance), RiskCapital)
        /\ RGt(RMul(FromInt(call.result.plan.shares + 1), StopDistance), RiskCapital)

\* C12: size_position fails with a validation error and returns no plan
\* whenever entry_price <= 0 or atr <= 0, whatever the sizer config, and returns
\* a plan for every entry_price > 0 and atr > 0.
C12_PlanIffPositive ==
    Sized =>
        IF PositiveArguments
        THEN call.result.status = "ok" /\ "plan" \in DOMAIN call.result
        ELSE call.result.status = "ValueError" /\ "plan" \notin DOMAIN call.result

\* entry_price - stop_price as size_position computes it from the plan's stop.
PerShareRisk == FSub(SizerFormat, call.entry_price, call.result.plan.stop_price)

\* C13: every returned plan has a non-negative integer number of shares, and a
\* plan whose perShareRisk is <= 0 has zero shares, carries stop_price and
\* risk_capital and has no exposure field.
C13_NonNegativeShares ==
    (Sized /\ call.result.status = "ok") =>
        /\ call.result.plan.shares \in Nat
        /\ RLe(PerShareRisk, FromInt(0)) =>
              /\ call.result.plan.shares = 0
              /\ DOMAIN call.result.plan = {"shares", "stop_price", "risk_capital"}

(***************************************************************************)
(* Further claims on evaluate (SpecEval).                                  *)
(***************************************************************************)
\* C14: calculate_indicators, and so evaluate, fails with a validation error
\* before any indicator is computed for every series that breaks the
\* PriceSeries invariant: a required series missing, series of unequal lengths,
\* or series of length zero.
C14_InvalidSeriesRejected ==
    (call.op = "evaluate" /\ call.price.shape \in BadShapes) =>
        call.result.status = "ValueError"

\* The call's evaluation repeated with another relative strength.
WithRS(rs) == evaluate(Series(call.price), rs, call.base_length, strategy.config)

NotRS(reason) == reason # MsgRS

HasReason(reasons, msg) == \E i \in 1..Len(reasons) : reasons[i] = msg

\* C15: with the series, base length and config fixed, a higher relative
\* strength never turns a qualifying evaluation into a disqualified one and
\* never adds a reason; past the moving-average gate the reason "Relative
\* strength is below threshold" is present iff relative_strength is below
\* rs_threshold; and the relative strength changes no other reason.
C15_MonotoneInRS ==
    Evaluated =>
        /\ (call.price.n >= W_SMA_200) =>
              (HasReason(call.result.reasons, MsgRS)
                  <=> call.relative_strength < strategy.config.rs_threshold)
        /\ \A rs \in EvalRS :
              LET other == WithRS(rs)
              IN  /\ SelectSeq(other.reasons, NotRS)
                        = SelectSeq(call.result.reasons, NotRS)
                  /\ (rs >= call.relative_strength) =>
                        /\ call.result.qualifies => other.qualifies
                        /\ Len(other.reasons) <= Len(call.result.reasons)

\* C15's case: an evaluation disqualified by its relative strength alone, which
\* qualifies with the highest relative strength.
C15_Witness ==
    /\ Evaluated
    /\ call.relative_strength = 65
    /\ call.result.reasons = <<MsgRS>>
    /\ WithRS(90).qualifies

\* The four score components as section 4.2 states them.
Components ==
    LET m == CallLatest
    IN  <<PyMin(Rat(call.relative_strength, 100), FromInt(1)),
          PyMin(RSub(FromInt(1), m.pct_off_high), FromInt(1)),
          PyMin(m.pct_from_low, FromInt(1)),
          PyMin(RDiv(m.volume_dry_up, Rat(3, 2)), FromInt(1))>>

MeanOf4(c) == RDiv(RAdd(RAdd(RAdd(c[1], c[2]), c[3]), c[4]), FromInt(4))

\* C16: the score of a qualifying evaluation is the unweighted mean of
\* min(rs/100, 1), min(1 - pctOffHigh, 1), min(pctFromLow, 1) and
\* min(volumeDryUp/1.5, 1), and never exceeds 1.0; the score of a disqualified
\* evaluation is exactly 0.0.
C16_ScoreIsClampedMean ==
    Evaluated =>
        IF call.result.qualifies
        THEN /\ call.result.score = MeanOf4(Components)
             /\ RLe(call.result.score, FromInt(1))
        ELSE call.result.score = FromInt(0)

\* C16's case: a qualifying evaluation in which a component is clamped (the
\* close is more than 100% above the 52-week low).
C16_Witness ==
    /\ Evaluated
    /\ call.result.qualifies
    /\ RGt(CallLatest.pct_from_low, FromInt(1))
    /\ RGt(call.result.score, FromInt(0))

\* The true range of period i of the call's series (i >= 2).
TrueRangeAt(i) ==
    LET p == call.price
    IN  Max3(HighAt(p.shape, p.n, i) - LowAt(p.shape, p.n, i),
             Abs(HighAt(p.shape, p.n, i) - CloseAt(p.shape, p.n, i - 1)),
             Abs(LowAt(p.shape, p.n, i) - CloseAt(p.shape, p.n, i - 1)))

\* The latest 14-period average true range, taken directly from the series.
LatestATR == Rat(SumRange([i \in 1..call.price.n |-> TrueRangeAt(i)],
                          call.price.n - W_ATR + 1, call.price.n), W_ATR)

\* C17: past the moving-average gate entry_price is the latest close and
\* stop_price is the latest close minus 2.0 times the latest 14-period ATR,
\* whether the evaluation qualifies or not.
C17_EntryAndStop ==
    (Evaluated /\ call.price.n >= W_SMA_200) =>
        /\ call.result.entry_price = LatestClose
        /\ call.result.stop_price = RSub(LatestClose, RMul(FromInt(2), LatestATR))

\* C17's case: a disqualified evaluation past the gate whose stop lies below
\* its entry.
C17_Witness ==
    /\ Evaluated
    /\ call.price.n >= W_SMA_200
    /\ ~call.result.qualifies
    /\ RLt(call.result.stop_price, call.result.entry_price)

\* C17's other case: a qualifying evaluation whose stop lies below its entry.
C17_WitnessQualifies ==
    /\ Evaluated
    /\ call.result.qualifies
    /\ RLt(call.result.stop_price, call.result.entry_price)

(***************************************************************************)
(* Claims on the rolling functions (SpecRolling).                          *)
(***************************************************************************)
Rolled == call.op \in {"rolling_mean", "rolling_max", "rolling_min"}

\* The statistic of values[i - W + 1 .. i] computed on the window alone.
WindowStatistic(i) ==
    LET lo == i - call.window + 1
    IN  CASE call.op = "rolling_mean" ->
                FDiv(RollingFormat, sum_fl(RollingFormat, call.values, lo, i),
                     FromInt(call.window))
          [] call.op = "rolling_max" -> FromInt(SliceMax(call.values, lo, i))
          [] call.op = "rolling_min" -> FromInt(SliceMin(call.values, lo, i))

\* The result has the input's length and the sentinel wherever no window ends.
LengthAndSentinels ==
    /\ DOMAIN call.result = 1..Len(call.values)
    /\ \A i \in 1..Len(call.values) :
          (call.window <= 0 \/ call.window > Len(call.values) \/ i < call.window)
              => isnan(call.result[i])

\* C18: the rolling mean, max and min of N values over a window W are lists of
\* length N whose entry at every index i >= W - 1 is the mean, max or min of
\* values[i - W + 1 .. i] (the running-sum mean agreeing with the mean of the
\* window at every index) and the sentinel at i < W - 1, and all sentinel when
\* W > N or W <= 0.  (Positions here are the indices plus one.)
C18_WindowStatistics ==
    Rolled =>
        /\ LengthAndSentinels
        /\ \A i \in 1..Len(call.values) :
              (call.window >= 1 /\ call.window <= Len(call.values) /\ i >= call.window)
                  => call.result[i] = WindowStatistic(i)

(***************************************************************************)
(* Claims on journals sharing a path (SpecWriters).                        *)
(***************************************************************************)
Occurrences(records, t) == Cardinality({i \in 1..Len(records) : records[i] = t})

\* Storage holds every record that the path held at the start or that a
\* record_trade call appended.
StorageComplete ==
    \A t \in Trades :
        Occurrences(load(file), t) >= Occurrences(loaded \o appended, t)

\* C19: with a single journal instance on the path no appended record is ever
\* absent from storage (two instances on one path can lose one: C19_Witness).
C19_SingleWriterKeepsAll == (Len(journal) = 1) => StorageComplete

\* C19's case: two instances on the same path, both record_trade calls have
\* returned, and storage lacks one of the two appended records.
C19_Witness ==
    /\ Len(journal) = 2
    /\ Len(appended) = 2
    /\ \A w \in 1..2 : journal[w].pc = "idle"
    /\ \E i \in 1..2 : Occurrences(load(file), appended[i]) = 0

(***************************************************************************)
(* Claims on repeated ranking passes (FairPasses).                         *)
(***************************************************************************)
EnoughRecords == journal.min_samples >= 1 /\ Len(journal.records) >= journal.min_samples

\* The adjustment of the journal's window leaves the bot's config as it is.
FixedPoint == EnoughRecords => StatedTuning(strategy.config, Window) = strategy.config

\* C20: with at least min_samples records in the journal and no new trade (the
\* journal only grows, so the window is the same while its length is),
\* every rank_candidates call applies the adjustment of the window again, so
\* that from every starting config the bot's config reaches a fixed point after
\* finitely many passes (rs_threshold 95 and max_pct_off_high 0.15 for a
\* winning window, rs_threshold 60 and min_pct_from_low 0.10 for a losing one,
\* at once for a neutral one), and from then on no pass rebuilds the evaluator
\* until a record_trade changes the window.
C20_RatchetSettles ==
    /\ [][(call'.op = "rank" /\ EnoughRecords) =>
            /\ strategy'.config = StatedTuning(strategy.config, Window)
            /\ call'.rebuilt = (strategy'.config # strategy.config)]_vars
    /\ []((FixedPoint /\ EnoughRecords) =>
            /\ Winning(Window) => /\ strategy.config.rs_threshold = 95
                                  /\ strategy.config.max_pct_off_high = 15
            /\ Losing(Window) => /\ strategy.config.rs_threshold = 60
                                 /\ strategy.config.min_pct_from_low = 10)
    /\ \A n \in 0..MaxBotRecords :
            (Len(journal.records) = n) ~> (FixedPoint \/ Len(journal.records) # n)
    /\ [][(FixedPoint /\ journal' = journal) =>
            /\ strategy' = strategy
            /\ call'.op = "rank" => ~call'.rebuilt]_vars

\* C20's case: passes over a winning window have raised rs_threshold to 95 and
\* lowered max_pct_off_high to 0.15 (no starting config has both), and the
\* latest pass has left the evaluator alone.
C20_Witness ==
    /\ call.op = "rank"
    /\ ~call.rebuilt
    /\ EnoughRecords
    /\ Winning(Window)
    /\ strategy.config.rs_threshold = 95
    /\ strategy.config.max_pct_off_high = 15

\* C20's other case: the same for a losing window.
C20_WitnessLosing ==
    /\ call.op = "rank"
    /\ ~call.rebuilt
    /\ EnoughRecords
    /\ Losing(Window)
    /\ strategy.config.rs_threshold = 60
    /\ strategy.config.min_pct_from_low = 10

(***************************************************************************)
(* Claims on the bot's config over its lifetime (SpecPasses).              *)
(***************************************************************************)
\* The three bounds of the tuner's clamps (fractions in hundredths).
InBounds(config) ==
    /\ config.rs_threshold >= 60
    /\ config.rs_threshold <= 95
    /\ config.max_pct_off_high >= 15
    /\ config.min_pct_from_low >= 10

\* C21: a bot whose config has 60 <= rs_threshold <= 95, max_pct_off_high >=
\* 0.15 and min_pct_from_low >= 0.10 keeps these bounds over every
\* interleaving of record_completed_trade and rank_candidates calls;
\* max_pct_off_high and min_pct_from_low never exceed their initial values
\* (no step raises them), and min_volume_dry_up_ratio, trend_lookback and
\* min_base_length stay as they were.
C21_BoundsKept ==
    [][InBounds(strategy.config) =>
        /\ InBounds(strategy'.config)
        /\ strategy'.config.max_pct_off_high <= strategy.config.max_pct_off_high
        /\ strategy'.config.min_pct_from_low <= strategy.config.min_pct_from_low
        /\ strategy'.config.min_volume_dry_up_ratio
              = strategy.config.min_volume_dry_up_ratio
        /\ strategy'.config.trend_lookback = strategy.config.trend_lookback
        /\ strategy'.config.min_base_length = strategy.config.min_base_length]_vars

\* C21's case: a pass over a losing window has lowered an in-bounds config onto
\* the floors of rs_threshold and min_pct_from_low, after a trade was recorded.
C21_Witness ==
    /\ call.op = "rank"
    /\ call.rebuilt
    /\ appended # <<>>
    /\ InBounds(call.config_before)
    /\ Losing(Window)
    /\ strategy.config.rs_threshold = 60
    /\ strategy.config.min_pct_from_low = 10
    /\ call.config_before.min_pct_from_low > 10

(***************************************************************************)
(* Claims on short series (SpecEval).                                      *)
(***************************************************************************)
\* The 52-week high and low at the latest index of the call's series.
LatestHigh52 == Latest(rolling_max(Series(call.price).high, W_52))
LatestLow52 == Latest(rolling_min(Series(call.price).low, W_52))

\* C22: no series shorter than 252 periods qualifies, whatever the config, the
\* relative strength and the base length are.  With 200 to 251 periods the
\* moving-average gate is passed, the 252-period high and low are undefined and
\* the reasons hold both "Price is extended too far below 52-week high" and
\* "Price is not sufficiently off the 52-week low".  No series shorter than
\* 200 + trend_lookback periods qualifies either: the 200-period average
\* trend_lookback periods back is undefined (or out of the list) and the trend
\* check fails.
C22_ShortSeriesNeverQualify ==
    Evaluated =>
        LET n == call.price.n
            r == call.result
        IN  /\ r.status = "ok"
            /\ n < W_52 => ~r.qualifies
            /\ (n >= W_SMA_200 /\ n < W_52) =>
                    /\ ~HasReason(r.reasons, MsgNoData)
                    /\ isnan(LatestHigh52)
                    /\ isnan(LatestLow52)
                    /\ HasReason(r.reasons, MsgOffHigh)
                    /\ HasReason(r.reasons, MsgFromLow)
            /\ n < W_SMA_200 + strategy.config.trend_lookback =>
                    /\ ~r.qualifies
                    /\ n >= W_SMA_200 =>
                            /\ CallLatest.has_earlier => isnan(CallLatest.earlier)
                            /\ \/ HasReason(r.reasons, MsgTrend)
                               \/ HasReason(r.reasons, MsgNoTrend)

\* C22's case: 251 periods of a rising series with a passing relative strength
\* and base length under the default config: the two 52-week checks are all
\* that fails.
C22_Witness ==
    /\ Evaluated
    /\ call.price = [n |-> W_52 - 1, shape |-> "up"]
    /\ strategy.config = DefaultConfig
    /\ call.relative_strength = 90
    /\ call.base_length = 35
    /\ call.result.reasons = <<MsgOffHigh, MsgFromLow>>

\* C22's other case: 252 periods, fewer than 200 + trend_lookback: the trend
\* check is all that fails.
C22_WitnessTrend ==
    /\ Evaluated
    /\ call.price = [n |-> W_52, shape |-> "up"]
    /\ call.price.n < W_SMA_200 + strategy.config.trend_lookback
    /\ CallLatest.has_earlier
    /\ call.relative_strength = 90
    /\ call.base_length = 35
    /\ call.result.reasons = <<MsgTrend>>

\* The limit of C22's second part: a series of exactly 200 + trend_lookback
\* periods qualifies.
C22_WitnessAtLimit ==
    /\ Evaluated
    /\ call.price.n = W_SMA_200 + strategy.config.trend_lookback
    /\ call.price.n >= W_52
    /\ call.result.qualifies

(***************************************************************************)
(* Claims on the stop prices of a returned candidate (SpecStops).          *)
(***************************************************************************)
\* What is stated of every returned candidate but the "only if": the ATR handed
\* to the sizer is finite and positive and the sizer answers, the plan's stop is
\* entry_price - atr_multiplier * ATR and the evaluation's stop is entry_price
\* - 2.0 * ATR, each as the format computes it, and the two are equal when
\* atr_multiplier is 2.0.
StopsAsStated(c) ==
    LET multiplier == position_sizer.config.atr_multiplier
    IN  /\ isfinite(c.atr_14)
        /\ RGt(c.atr_14, FromInt(0))
        /\ c.sized.status = "ok"
        /\ c.sized.plan.stop_price
              = FSub(SizerFormat, c.entry_price, FMul(SizerFormat, multiplier, c.atr_14))
        /\ c.stop_price
              = FSub(SizerFormat, c.entry_price, FMul(SizerFormat, FromInt(2), c.atr_14))
        /\ multiplier = FromInt(2) => c.sized.plan.stop_price = c.stop_price

\* Neither stop price of the candidate is rounded: the format holds the exact
\* differences.
StopsExact(c) ==
    /\ c.stop_price = RSub(c.entry_price, RMul(FromInt(2), c.atr_14))
    /\ c.sized.plan.stop_price
          = RSub(c.entry_price, RMul(position_sizer.config.atr_multiplier, c.atr_14))

\* C23 as stated: in every returned candidate the ATR handed to the sizer is
\* finite and positive, position_plan.stop_price = entry_price -
\* atr_multiplier * ATR14 and evaluation.stop_price = entry_price - 2.0 *
\* ATR14, and the two stop prices are equal if and only if atr_multiplier is
\* 2.0.
C23_EqualIffTwo ==
    (Ranked /\ call.status = "ok") =>
        \A i \in 1..Len(call.floats) :
            /\ StopsAsStated(call.floats[i])
            /\ (call.floats[i].sized.plan.stop_price = call.floats[i].stop_price)
                  => position_sizer.config.atr_multiplier = FromInt(2)

\* C23, amended: as stated, but two equal stop prices imply an atr_multiplier
\* of 2.0 only where neither of them is rounded.
C23_EqualWhenTwo ==
    (Ranked /\ call.status = "ok") =>
        \A i \in 1..Len(call.floats) :
            /\ StopsAsStated(call.floats[i])
            /\ (/\ StopsExact(call.floats[i])
                /\ call.floats[i].sized.plan.stop_price = call.floats[i].stop_price)
                  => position_sizer.config.atr_multiplier = FromInt(2)

\* C23's case: two candidates returned under an atr_multiplier of 3.0, their
\* stop prices exact and apart.
C23_Witness ==
    /\ Ranked
    /\ call.status = "ok"
    /\ Len(call.floats) = 2
    /\ position_sizer.config.atr_multiplier = FromInt(3)
    /\ \E i \in 1..Len(call.floats) :
        /\ StopsExact(call.floats[i])
        /\ call.floats[i].sized.plan.stop_price # call.floats[i].stop_price
        /\ call.floats[i].sized.plan.shares > 0

\* C23's other cases: the default multiplier, and a multiplier other than 2.0
\* whose stop price is rounded onto the evaluation's.
C23_WitnessDefault ==
    /\ Ranked
    /\ call.floats # <<>>
    /\ position_sizer.config.atr_multiplier = FromInt(2)
    /\ call.floats[1].sized.plan.stop_price = call.floats[1].stop_price

C23_WitnessAbsorbed ==
    /\ Ranked
    /\ call.floats # <<>>
    /\ position_sizer.config.atr_multiplier = <<129, 64>>
    /\ call.floats[1].sized.plan.stop_price = call.floats[1].stop_price

====
